---- MODULE Spec2Model ----
(***************************************************************************)
(* Slapjack server: the game-arbitration engine (package game), modelled   *)
(* from the Go sources.  Hands and the pile are Go slices, so they are     *)
(* modelled as views (array, offset, length, capacity) over backing arrays *)
(* kept in `mem`; re-slicing and append follow the Go semantics, including *)
(* in-place writes when the capacity of the destination suffices.          *)
(***************************************************************************)
EXTENDS Integers, Sequences, FiniteSets, TLC

VARIABLES
    mem,             \* backing arrays of the slices: array name -> sequence of cards
    PlayerHands,     \* Game.PlayerHands: player id -> slice
    Pile,            \* Game.Pile: slice
    CurrentTurnIdx,  \* Game.CurrentTurnIdx (0-based index into TurnOrder)
    Rules,           \* Game.Rules: [EnableDoubles, EnableSandwich]
    BurnPenalty,     \* Game.BurnPenalty
    EnableSlapIn,    \* Game.EnableSlapIn
    SlapInCounts,    \* Game.SlapInCounts
    LastSlapTime,    \* Game.LastSlapTime (NoTime = no entry)
    SlapWindowOpen,  \* Game.SlapWindowOpen
    SlapMu,          \* Game.SlapMu: the player whose ProcessSlap holds it, or Free
    Stats,           \* Game.Stats: [TotalSlaps, SuccessfulSlaps, CardsBurned]
    timers,          \* turn timers started by StartTurnTimer: set of [gen, warn, timeout]
    nextGen,         \* number of StartTurnTimer calls so far
    roomStatus,      \* Room.Status of the room that owns the game
    pc,              \* per player: position of its connection's handler
    slapRes,         \* per player: result of its ProcessSlap call in progress
    now,             \* monotonic clock, milliseconds
    lastOp,          \* the last play, auto-play or slap call, with its result
    steps,           \* number of client/timer operations started
    lastAttemptTime, \* history: per player, when its last ProcessSlap took SlapMu
    lastPassedTime,  \* history: per player, when its last ProcessSlap passed the cooldown check
    raced,           \* history: per player, how its slap in progress relates to the pile it was made on
    arg,             \* input of the pure function under check
    ret,             \* its result
    rooms,           \* Manager.rooms: room code -> Room object (NoRoom = no entry)
    sessions,        \* Manager.sessions: session id -> [PlayerID, RoomCode]
    clients,         \* Hub.clients: the registered connections
    hubSessions,     \* Hub.sessions: session id -> connection
    heap,            \* the Room objects created so far (a *Room is an index)
    conn,            \* the Client objects, with the position of each one's handler
    hub,             \* position of the hub's goroutine
    countdowns,      \* the StartGameCountdown tasks started so far
    nextID,          \* the next player id that uuid.New() gives
    crashed,         \* the process has ended in a panic
    srvOps,          \* number of client requests so far
    lastSrv          \* the last step of the server

gameVars == <<mem, PlayerHands, Pile, CurrentTurnIdx, Rules, BurnPenalty, EnableSlapIn,
              SlapInCounts, LastSlapTime, SlapWindowOpen, SlapMu, Stats, timers, nextGen,
              roomStatus, pc, slapRes, now, lastOp, steps, lastAttemptTime, lastPassedTime,
              raced>>
fnVars == <<arg, ret>>
srvVars == <<rooms, sessions, clients, hubSessions, heap, conn, hub, countdowns, nextID,
             crashed, srvOps, lastSrv>>
vars == <<gameVars, fnVars, srvVars>>

----------------------------------------------------------------------------
(* Bounds of the model *)

NumSuits == 2
NumRanks == 3
MaxSteps == 4
MaxTicks == 2
MaxPileLen == 3

\* Settings of the room the game is created from: the default cooldown, and the
\* smallest maxSlapIns that Settings.FromProtocol accepts
SlapCooldownMs == 200
MaxSlapIns == 1

\* a game starts with at least this many connected players; the model plays
\* games of that size
MinPlayers == 2
NumPlayers == MinPlayers

----------------------------------------------------------------------------
(* Cards and deck *)

suits == <<"hearts", "diamonds", "clubs", "spades">>
ranks == <<"A", "2", "3", "4", "5", "6", "7", "8", "9", "10", "J", "Q", "K">>

\* the model deals the first NumSuits suits and the last NumRanks ranks
DeckSuits == SubSeq(suits, 1, NumSuits)
DeckRanks == SubSeq(ranks, Len(ranks) - NumRanks + 1, Len(ranks))
DeckSize == NumSuits * NumRanks

NoCard == [Suit |-> "", Rank |-> ""]

IsJack(c) == c.Rank = "J"

NewDeck ==
    [k \in 1..DeckSize |->
        [Suit |-> DeckSuits[((k - 1) \div NumRanks) + 1],
         Rank |-> DeckRanks[((k - 1) % NumRanks) + 1]]]

DeckCards == {NewDeck[k] : k \in 1..DeckSize}

Reverse(s) == [i \in 1..Len(s) |-> s[Len(s) + 1 - i]]
SwapAt(s, i, j) == [k \in 1..Len(s) |-> IF k = i THEN s[j] ELSE IF k = j THEN s[i] ELSE s[k]]
RankMajor ==
    [k \in 1..DeckSize |-> NewDeck[((k - 1) % NumSuits) * NumRanks + ((k - 1) \div NumSuits) + 1]]

\* Deck.Shuffle: some permutation of the deck; the model draws from these
ShuffleOutcomes ==
    { SwapAt(NewDeck, NumRanks, NumRanks + 1),
      Reverse(RankMajor),
      SwapAt(Reverse(RankMajor), 2, 3) }

----------------------------------------------------------------------------
(* Rules.CheckSlap *)

SlapReasonJack == "jack"
SlapReasonDoubles == "doubles"
SlapReasonSandwich == "sandwich"
SlapReasonInvalid == "invalid"

\* faulty variant: doubles is tested before the jack
CheckSlapDoublesFirst(pile, r) ==
    LET n == Len(pile) IN
    IF n = 0 THEN SlapReasonInvalid
    ELSE IF r.EnableDoubles /\ n >= 2 /\ pile[n].Rank = pile[n - 1].Rank THEN SlapReasonDoubles
    ELSE IF IsJack(pile[n]) THEN SlapReasonJack
    ELSE IF r.EnableSandwich /\ n >= 3 /\ pile[n].Rank = pile[n - 2].Rank THEN SlapReasonSandwich
    ELSE SlapReasonInvalid

CheckSlap(pile, r) ==
    LET n == Len(pile) IN
    IF n = 0 THEN SlapReasonInvalid
    ELSE IF IsJack(pile[n]) THEN SlapReasonJack
    ELSE IF r.EnableDoubles /\ n >= 2 /\ pile[n].Rank = pile[n - 1].Rank THEN SlapReasonDoubles
    ELSE IF r.EnableSandwich /\ n >= 3 /\ pile[n].Rank = pile[n - 2].Rank THEN SlapReasonSandwich
    ELSE SlapReasonInvalid

IsValidSlap(pile, r) == CheckSlap(pile, r) # SlapReasonInvalid

----------------------------------------------------------------------------
(* Go slices *)

MkSlice(a, o, l, c) == [arr |-> a, off |-> o, len |-> l, cap |-> c]

\* the elements a slice shows
Read(m, s) == [i \in 1..s.len |-> m[s.arr][s.off + i]]

\* s[k:]
SliceFrom(s, k) == MkSlice(s.arr, s.off + k, s.len - k, s.cap - k)

\* s[:k]
SliceTo(s, k) == MkSlice(s.arr, s.off, k, s.cap)

Zeroes(n) == [i \in 1..n |-> NoCard]

\* capacity of the array append allocates when the old one is too small (runtime
\* growslice for 32-byte elements: double below 256 elements, rounded up to an
\* allocation size class)
RoundupCap(c) ==
    IF c <= 16 THEN c
    ELSE IF c <= 24 THEN c + (c % 2)
    ELSE IF c <= 48 THEN c + ((4 - (c % 4)) % 4)
    ELSE c + ((8 - (c % 8)) % 8)

GrowCap(oldCap, newLen) ==
    RoundupCap(IF newLen > 2 * oldCap THEN newLen ELSE 2 * oldCap)

\* append(s, vals...): in place when cap(s) suffices, else into a new array `fresh`
GoAppend(m, s, vals, fresh) ==
    IF s.len + Len(vals) <= s.cap
    THEN [mem   |-> [m EXCEPT ![s.arr] =
                        [i \in 1..Len(@) |->
                            IF i > s.off + s.len /\ i <= s.off + s.len + Len(vals)
                            THEN vals[i - s.off - s.len]
                            ELSE @[i]]],
          slice |-> MkSlice(s.arr, s.off, s.len + Len(vals), s.cap)]
    ELSE LET c == GrowCap(s.cap, s.len + Len(vals)) IN
         [mem   |-> [m EXCEPT ![fresh] =
                        Read(m, s) \o vals \o Zeroes(c - s.len - Len(vals))],
          slice |-> MkSlice(fresh, 0, s.len + Len(vals), c)]

----------------------------------------------------------------------------
(* Game state *)

AllPlayerIDs == <<"p1", "p2", "p3", "p4", "p5", "p6", "p7", "p8">>
TurnOrder == SubSeq(AllPlayerIDs, 1, NumPlayers)
Players == {TurnOrder[i] : i \in 1..NumPlayers}
PileArr == "pile"
Free == "free"
NoTime == -1
TickMs == SlapCooldownMs \div 2

Min(a, b) == IF a < b THEN a ELSE b

SeatOf(p) == CHOOSE k \in 1..NumPlayers : TurnOrder[k] = p

\* Deck.Deal: card i of the deck goes to hand (i mod numPlayers); every hand is
\* allocated with capacity deck/numPlayers + 1
DealCap == (DeckSize \div NumPlayers) + 1
DealLen(i) == (DeckSize \div NumPlayers) + (IF i <= DeckSize % NumPlayers THEN 1 ELSE 0)
Deal(deck) ==
    [p \in Players |->
        [k \in 1..DealCap |->
            IF k <= DealLen(SeatOf(p)) THEN deck[(k - 1) * NumPlayers + SeatOf(p)] ELSE NoCard]]

\* the room settings a game is created with: DefaultSettings, and one variation
DefaultSettings ==
    [EnableDoubles |-> TRUE, EnableSandwich |-> TRUE, BurnPenalty |-> 1, EnableSlapIn |-> TRUE]
SettingsChoices ==
    { DefaultSettings,
      [EnableDoubles |-> FALSE, EnableSandwich |-> FALSE, BurnPenalty |-> 2,
       EnableSlapIn |-> FALSE] }

NoRes == [ok |-> FALSE, reason |-> "", burn |-> 0, won |-> 0]
NoOp == [op |-> "none", player |-> "", ok |-> FALSE, reason |-> ""]

\* NewGame(deck, settings), followed by the first StartTurnTimer of StartGameCountdown
NewGame(deck, st) ==
    /\ mem = [a \in Players \cup {PileArr} |->
                 IF a = PileArr THEN Zeroes(DeckSize) ELSE Deal(deck)[a]]
    /\ PlayerHands = [p \in Players |-> MkSlice(p, 0, DealLen(SeatOf(p)), DealCap)]
    /\ Pile = MkSlice(PileArr, 0, 0, DeckSize)
    /\ CurrentTurnIdx = 0
    /\ Rules = [EnableDoubles |-> st.EnableDoubles, EnableSandwich |-> st.EnableSandwich]
    /\ BurnPenalty = st.BurnPenalty
    /\ EnableSlapIn = st.EnableSlapIn
    /\ SlapInCounts = [p \in Players |-> 0]
    /\ LastSlapTime = [p \in Players |-> NoTime]
    /\ SlapWindowOpen = FALSE
    /\ SlapMu = Free
    /\ Stats = [TotalSlaps |-> 0,
                SuccessfulSlaps |-> [p \in Players |-> 0],
                CardsBurned |-> [p \in Players |-> 0]]
    /\ timers = {[gen |-> 0, warn |-> TRUE, timeout |-> TRUE]}
    /\ nextGen = 1
    /\ roomStatus = "playing"
    /\ pc = [p \in Players |-> "idle"]
    /\ slapRes = [p \in Players |-> NoRes]
    /\ now = 0
    /\ lastOp = NoOp
    /\ steps = 0
    /\ lastAttemptTime = [p \in Players |-> NoTime]
    /\ lastPassedTime = [p \in Players |-> NoTime]
    /\ raced = [p \in Players |-> "no"]

\* the cards a hand / the pile shows
Hand(p) == Read(mem, PlayerHands[p])
PileCards == Read(mem, Pile)

\* the part of the state the game operations work on
G == [mem |-> mem, hands |-> PlayerHands, pile |-> Pile, idx |-> CurrentTurnIdx,
      window |-> SlapWindowOpen, slapIn |-> SlapInCounts, stats |-> Stats]

SetGame(g) ==
    /\ mem' = g.mem
    /\ PlayerHands' = g.hands
    /\ Pile' = g.pile
    /\ CurrentTurnIdx' = g.idx
    /\ SlapWindowOpen' = g.window
    /\ SlapInCounts' = g.slapIn
    /\ Stats' = g.stats

----------------------------------------------------------------------------
(* Game.PlayCard and Game.advanceTurn *)

\* faulty variant: the turn goes to the next seat, with or without cards
advanceLoopNoSkip(hands, idx, startIdx) == (idx + 1) % Len(TurnOrder)

RECURSIVE advanceLoop(_, _, _)
advanceLoop(hands, idx, startIdx) ==
    LET next == (idx + 1) % Len(TurnOrder) IN
    IF hands[TurnOrder[next + 1]].len > 0 THEN next
    ELSE IF next = startIdx THEN next
    ELSE advanceLoop(hands, next, startIdx)

advanceTurn(g) == [g EXCEPT !.idx = advanceLoop(g.hands, g.idx, g.idx)]

\* faulty variant: the turn is not checked
PlayCardErrNoTurnCheck(g, p) ==
    IF g.hands[p].len = 0 THEN "no cards to play" ELSE ""

\* the checks of PlayCard: "" when the play is allowed
PlayCardErr(g, p) ==
    IF TurnOrder[g.idx + 1] # p THEN "not your turn"
    ELSE IF g.hands[p].len = 0 THEN "no cards to play"
    ELSE ""

\* card := hand[0]; hand = hand[1:]; Pile = append(Pile, card)
MoveFrontCard(g, p) ==
    LET hand == g.hands[p]
        card == g.mem[hand.arr][hand.off + 1]
        ap   == GoAppend(g.mem, g.pile, <<card>>, PileArr)
    IN [g EXCEPT !.hands[p] = SliceFrom(hand, 1), !.mem = ap.mem, !.pile = ap.slice]

PlayCard(g, p) ==
    IF PlayCardErr(g, p) # "" THEN g
    ELSE advanceTurn([MoveFrontCard(g, p) EXCEPT !.window = TRUE])

\* faulty variant: the auto-play does not open the slap window
AutoPlayNoWindow(g) ==
    LET currentPlayer == TurnOrder[g.idx + 1] IN
    IF g.hands[currentPlayer].len > 0 THEN advanceTurn(MoveFrontCard(g, currentPlayer)) ELSE g

\* the auto-play of the timeout task of StartTurnTimer, for the current player
AutoPlay(g) ==
    LET currentPlayer == TurnOrder[g.idx + 1] IN
    IF g.hands[currentPlayer].len > 0
    THEN advanceTurn([MoveFrontCard(g, currentPlayer) EXCEPT !.window = TRUE])
    ELSE g

----------------------------------------------------------------------------
(* Game.ProcessSlap and Game.applyBurnPenalty *)

\* faulty variant: the cooldown window is half as long
InCooldownHalf(p) ==
    /\ LastSlapTime[p] # NoTime
    /\ 2 * (now - LastSlapTime[p]) < SlapCooldownMs

\* time.Since(lastSlap) < SlapCooldownMs, for a player with an entry in LastSlapTime
InCooldown(p) ==
    /\ LastSlapTime[p] # NoTime
    /\ now - LastSlapTime[p] < SlapCooldownMs

\* faulty variant: a cooldown rejection also closes the slap window
CooldownRejectedClosesWindow(g, p) ==
    [g EXCEPT !.stats.TotalSlaps = @ + 1, !.window = FALSE]

\* what ProcessSlap has changed when it returns "cooldown"
CooldownRejected(g, p) == [g EXCEPT !.stats.TotalSlaps = @ + 1]

\* faulty variant: the burned cards leave the hand and never reach the pile
applyBurnPenaltyDrop(g, p, penalty) ==
    LET hand == g.hands[p]
        burnCount == Min(penalty, hand.len)
    IN [g |-> [g EXCEPT !.hands[p] = SliceFrom(hand, burnCount)], burnCount |-> burnCount]

applyBurnPenalty(g, p, penalty) ==
    LET hand == g.hands[p] IN
    IF hand.len = 0 THEN [g |-> g, burnCount |-> 0]
    ELSE LET burnCount == Min(penalty, hand.len)
             burnedCards == SliceTo(hand, burnCount)
             ap == GoAppend(g.mem, burnedCards, Read(g.mem, g.pile), PileArr)
         IN [g |-> [g EXCEPT !.hands[p] = SliceFrom(hand, burnCount),
                             !.mem = ap.mem,
                             !.pile = ap.slice],
             burnCount |-> burnCount]

\* faulty variant: the winner gets the cards and the pile is not replaced
WinPileKeepPile(g, p, reason) ==
    LET ap == GoAppend(g.mem, g.hands[p], Read(g.mem, g.pile), p) IN
    [g   |-> [g EXCEPT !.slapIn[p] = IF g.hands[p].len > 0 THEN @ ELSE @ + 1,
                       !.hands[p] = ap.slice,
                       !.mem = ap.mem,
                       !.window = FALSE,
                       !.stats.SuccessfulSlaps[p] = @ + 1,
                       !.idx = SeatOf(p) - 1],
     res |-> [ok |-> TRUE, reason |-> reason, burn |-> 0, won |-> g.pile.len]]

\* faulty variant: the winner does not become the next to play
WinPileNoLead(g, p, reason) ==
    LET ap == GoAppend(g.mem, g.hands[p], Read(g.mem, g.pile), p) IN
    [g   |-> [g EXCEPT !.slapIn[p] = IF g.hands[p].len > 0 THEN @ ELSE @ + 1,
                       !.hands[p] = ap.slice,
                       !.mem = [ap.mem EXCEPT ![PileArr] = Zeroes(DeckSize)],
                       !.pile = MkSlice(PileArr, 0, 0, DeckSize),
                       !.window = FALSE,
                       !.stats.SuccessfulSlaps[p] = @ + 1],
     res |-> [ok |-> TRUE, reason |-> reason, burn |-> 0, won |-> g.pile.len]]

\* the valid-slap branch: the player wins the pile
WinPile(g, p, reason) ==
    LET playerHasCards == g.hands[p].len > 0
        cardsWon == g.pile.len
        ap == GoAppend(g.mem, g.hands[p], Read(g.mem, g.pile), p)
    IN [g   |-> [g EXCEPT !.slapIn[p] = IF playerHasCards THEN @ ELSE @ + 1,
                          !.hands[p] = ap.slice,
                          !.mem = [ap.mem EXCEPT ![PileArr] = Zeroes(DeckSize)],
                          !.pile = MkSlice(PileArr, 0, 0, DeckSize),
                          !.window = FALSE,
                          !.stats.SuccessfulSlaps[p] = @ + 1,
                          !.idx = SeatOf(p) - 1],
        res |-> [ok |-> TRUE, reason |-> reason, burn |-> 0, won |-> cardsWon]]

\* faulty variant: a player may slap in once more than MaxSlapIns allows
ProcessSlapLockedOneMore(g, p, penalty, rules, slapInEnabled) ==
    LET playerHasCards == g.hands[p].len > 0
        reason == CheckSlap(Read(g.mem, g.pile), rules)
        canSlapIn == slapInEnabled /\ g.slapIn[p] <= MaxSlapIns
    IN IF ~playerHasCards /\ ~canSlapIn
       THEN [g |-> g, res |-> [ok |-> FALSE, reason |-> "eliminated", burn |-> 0, won |-> 0]]
       ELSE IF ~playerHasCards /\ reason = SlapReasonInvalid
       THEN [g |-> g, res |-> [ok |-> FALSE, reason |-> reason, burn |-> 0, won |-> 0]]
       ELSE IF reason = SlapReasonInvalid
       THEN LET b == applyBurnPenalty(g, p, penalty) IN
            [g   |-> [b.g EXCEPT !.stats.CardsBurned[p] = @ + b.burnCount],
             res |-> [ok |-> FALSE, reason |-> reason, burn |-> b.burnCount, won |-> 0]]
       ELSE WinPile(g, p, reason)

\* faulty variant: the eligibility of a player without cards is not checked
ProcessSlapLockedNoEligibility(g, p, penalty, rules, slapInEnabled) ==
    LET playerHasCards == g.hands[p].len > 0
        reason == CheckSlap(Read(g.mem, g.pile), rules)
    IN IF ~playerHasCards /\ reason = SlapReasonInvalid
       THEN [g |-> g, res |-> [ok |-> FALSE, reason |-> reason, burn |-> 0, won |-> 0]]
       ELSE IF reason = SlapReasonInvalid
       THEN LET b == applyBurnPenalty(g, p, penalty) IN
            [g   |-> [b.g EXCEPT !.stats.CardsBurned[p] = @ + b.burnCount],
             res |-> [ok |-> FALSE, reason |-> reason, burn |-> b.burnCount, won |-> 0]]
       ELSE WinPile(g, p, reason)

\* faulty variant: a failed slap of a player without cards uses up a slap-in
ProcessSlapLockedChargesSlapIn(g, p, penalty, rules, slapInEnabled) ==
    LET playerHasCards == g.hands[p].len > 0
        reason == CheckSlap(Read(g.mem, g.pile), rules)
        canSlapIn == slapInEnabled /\ g.slapIn[p] < MaxSlapIns
    IN IF ~playerHasCards /\ ~canSlapIn
       THEN [g |-> g, res |-> [ok |-> FALSE, reason |-> "eliminated", burn |-> 0, won |-> 0]]
       ELSE IF ~playerHasCards /\ reason = SlapReasonInvalid
       THEN [g   |-> [g EXCEPT !.slapIn[p] = @ + 1],
             res |-> [ok |-> FALSE, reason |-> reason, burn |-> 0, won |-> 0]]
       ELSE IF reason = SlapReasonInvalid
       THEN LET b == applyBurnPenalty(g, p, penalty) IN
            [g   |-> [b.g EXCEPT !.stats.CardsBurned[p] = @ + b.burnCount],
             res |-> [ok |-> FALSE, reason |-> reason, burn |-> b.burnCount, won |-> 0]]
       ELSE WinPile(g, p, reason)

\* the part of ProcessSlap that runs with Game.mu held
ProcessSlapLocked(g, p, penalty, rules, slapInEnabled) ==
    LET playerHasCards == g.hands[p].len > 0
        reason == CheckSlap(Read(g.mem, g.pile), rules)
        canSlapIn == slapInEnabled /\ g.slapIn[p] < MaxSlapIns
    IN IF ~playerHasCards /\ ~canSlapIn
       THEN [g |-> g, res |-> [ok |-> FALSE, reason |-> "eliminated", burn |-> 0, won |-> 0]]
       ELSE IF ~playerHasCards /\ reason = SlapReasonInvalid
       THEN [g |-> g, res |-> [ok |-> FALSE, reason |-> reason, burn |-> 0, won |-> 0]]
       ELSE IF reason = SlapReasonInvalid
       THEN LET b == applyBurnPenalty(g, p, penalty) IN
            [g   |-> [b.g EXCEPT !.stats.CardsBurned[p] = @ + b.burnCount],
             res |-> [ok |-> FALSE, reason |-> reason, burn |-> b.burnCount, won |-> 0]]
       ELSE WinPile(g, p, reason)

----------------------------------------------------------------------------
(* Game.CheckEliminations, Game.CheckWinner *)

\* faulty variant: every player without cards is eliminated, whatever the pile
CheckEliminationsAnyEmpty(g, rules) == {p \in Players : g.hands[p].len = 0}

CheckEliminations(g, rules) ==
    {p \in Players : g.hands[p].len = 0 /\ ~IsValidSlap(Read(g.mem, g.pile), rules)}

playersWithCards(g) == {p \in Players : g.hands[p].len > 0}

CheckWinner(g, rules) ==
    IF /\ Cardinality(playersWithCards(g)) = 1
       /\ (g.pile.len = 0 \/ ~IsValidSlap(Read(g.mem, g.pile), rules))
    THEN CHOOSE p \in playersWithCards(g) : TRUE
    ELSE ""

----------------------------------------------------------------------------
(* Turn timer: StartTurnTimer starts a warning task and a timeout task, both *)
(* of which also wait on Game.TurnTimerCancel                                *)

Pending(ts) == {t \in ts : t.warn \/ t.timeout}

StartTimer(ts, gen) == ts \cup {[gen |-> gen, warn |-> TRUE, timeout |-> TRUE]}

\* the non-blocking send on TurnTimerCancel in PlayCard: received by one waiting
\* task (the runtime wakes the longest-waiting receiver), dropped when none waits
AfterCancel(ts) ==
    IF Pending(ts) = {} THEN {ts}
    ELSE LET t == CHOOSE x \in Pending(ts) : \A y \in Pending(ts) : x.gen <= y.gen IN
         {Pending((ts \ {t}) \cup {[t EXCEPT ![k] = FALSE]}) :
             k \in {f \in {"warn", "timeout"} : t[f]}}

----------------------------------------------------------------------------
(* The room server: Manager (rooms, sessions), Hub (clients, sessions),     *)
(* Room and Client objects, the start-game countdown tasks.  Every client   *)
(* handler runs on the goroutine of its connection, the register and        *)
(* unregister requests run on the hub's goroutine, each countdown on its    *)
(* own; a handler is cut into steps where it releases one lock and takes    *)
(* the next                                                                 *)

\* number of client requests (connect, close, messages) in a behaviour
MaxOps == 3
\* number of broadcasts and socket writes in a behaviour of the hub
MaxSends == 2

\* Settings.MaxPlayers: the default, and the smallest value FromProtocol accepts
DefaultMaxPlayers == 4
MaxPlayers == 2
\* first tick of the countdown
CountdownFrom == 3
\* capacity of Client.send
SendBufferSize == 256

\* a nil *Room, and the empty player id
NoRoom == 0
NoPlayer == 0
\* no client
NoConn == ""

\* the room codes drawn by generateRoomCode, the session tokens presented by
\* connections, the connections accepted by handleWebSocket
RoomCodes == {"AAAA", "BBBB"}
SessionIDs == {"s1", "s2"}
Conns == {"c1", "c2", "c3"}
\* number of Room objects created in a behaviour
MaxRooms == Cardinality(RoomCodes)

NoSession == [PlayerID |-> NoPlayer, RoomCode |-> ""]
NoGame == [active |-> FALSE, TurnOrder |-> <<>>, timer |-> FALSE]
NoRoomState == [Code |-> "", Players |-> {}, Status |-> "", HostID |-> NoPlayer]

\* a protocol message: its type, a number (countdown tick, player id) and a
\* room snapshot where the message carries one
Msg(type, n, room) == [type |-> type, n |-> n, room |-> room]

\* the orders in which a `range` over a map with key set S can visit it
Orders(S) == {f \in [1..Cardinality(S) -> S] : \A i, j \in DOMAIN f : f[i] = f[j] => i = j}

(* Room *)

NewRoom(code, playerID) ==
    [Code |-> code,
     Players |-> (playerID :> [IsHost |-> TRUE, IsConnected |-> TRUE, Position |-> 0]),
     MaxPlayers |-> DefaultMaxPlayers,
     Status |-> "waiting",
     HostID |-> playerID,
     Game |-> NoGame]

AddPlayer(r, playerID) ==
    [r EXCEPT !.Players =
        (playerID :> [IsHost |-> FALSE, IsConnected |-> TRUE,
                      Position |-> Cardinality(DOMAIN r.Players)]) @@ r.Players]

\* RemovePlayer without the reindexing loop
RemovePlayerNoReindex(r, playerID) ==
    LET rest == DOMAIN r.Players \ {playerID}
        connected == {p \in rest : r.Players[p].IsConnected}
        hosts == IF r.HostID = playerID /\ connected # {} THEN connected ELSE {NoPlayer}
    IN {[r EXCEPT !.HostID = IF h = NoPlayer THEN r.HostID ELSE h,
                  !.Players = [p \in rest |->
                      [r.Players[p] EXCEPT !.IsHost = IF p = h THEN TRUE ELSE @]]] :
        h \in hosts}

\* Room.RemovePlayer: the outcomes over the iteration orders of the map (the
\* first connected player met becomes host, positions follow the order met)
RemovePlayer(r, playerID) ==
    LET rest == DOMAIN r.Players \ {playerID}
        connected == {p \in rest : r.Players[p].IsConnected}
        hosts == IF r.HostID = playerID /\ connected # {} THEN connected ELSE {NoPlayer}
    IN {[r EXCEPT !.HostID = IF h = NoPlayer THEN r.HostID ELSE h,
                  !.Players = [p \in rest |->
                      [r.Players[p] EXCEPT !.IsHost = IF p = h THEN TRUE ELSE @,
                                           !.Position = (CHOOSE i \in DOMAIN o : o[i] = p) - 1]]] :
        h \in hosts, o \in Orders(rest)}

MarkPlayerConnected(r, playerID) ==
    IF playerID \in DOMAIN r.Players
    THEN [r EXCEPT !.Players[playerID].IsConnected = TRUE]
    ELSE r

GetConnectedPlayers(r) == {p \in DOMAIN r.Players : r.Players[p].IsConnected}
IsFull(r) == Cardinality(DOMAIN r.Players) >= r.MaxPlayers
IsEmpty(r) == GetConnectedPlayers(r) = {}

ToProtocol(r) ==
    [Code |-> r.Code,
     Players |-> {[ID |-> p, IsHost |-> r.Players[p].IsHost,
                   IsConnected |-> r.Players[p].IsConnected,
                   Position |-> r.Players[p].Position] : p \in DOMAIN r.Players},
     Status |-> r.Status,
     HostID |-> r.HostID]

\* Room.StartGame: the Game over the connected players, in the order the map
\* is visited; Deck.Deal divides by the number of players
RoomStartGame(r) ==
    IF GetConnectedPlayers(r) = {} THEN {}
    ELSE {[r EXCEPT !.Game = [active |-> TRUE, TurnOrder |-> o, timer |-> FALSE],
                    !.Status = "playing"] : o \in Orders(GetConnectedPlayers(r))}

FromProtocol(r, maxPlayers) ==
    IF maxPlayers >= 2 /\ maxPlayers <= 8 THEN [r EXCEPT !.MaxPlayers = maxPlayers] ELSE r

(* The server state as one value, and its assignment *)

\* writePump has taken from Client.send what the step before has put on it
Drained(cs) == [x \in DOMAIN cs |-> [cs[x] EXCEPT !.send = <<>>]]

Srv ==
    [rooms |-> rooms, sessions |-> sessions, clients |-> clients,
     hubSessions |-> hubSessions, heap |-> heap, conn |-> Drained(conn), hub |-> hub,
     countdowns |-> countdowns, nextID |-> nextID, crashed |-> crashed]

SetSrv(s) ==
    /\ rooms' = s.rooms
    /\ sessions' = s.sessions
    /\ clients' = s.clients
    /\ hubSessions' = s.hubSessions
    /\ heap' = s.heap
    /\ conn' = s.conn
    /\ hub' = s.hub
    /\ countdowns' = s.countdowns
    /\ nextID' = s.nextID
    /\ crashed' = s.crashed

NewConn ==
    [state |-> "new", SessionID |-> "", RoomCode |-> "", PlayerID |-> NoPlayer,
     send |-> <<>>, pc |-> "idle", code |-> "", room |-> NoRoom]
HubIdle == [pc |-> "idle", c |-> NoConn, room |-> NoRoom]

\* NewHub / NewManager
NewHub ==
    [rooms |-> [k \in RoomCodes |-> NoRoom],
     sessions |-> [sid \in SessionIDs |-> NoSession],
     clients |-> {},
     hubSessions |-> [sid \in SessionIDs |-> NoConn],
     heap |-> <<>>,
     conn |-> [c \in Conns |-> NewConn],
     hub |-> HubIdle,
     countdowns |-> <<>>,
     nextID |-> 1,
     crashed |-> FALSE]

(* Manager and Hub *)

GetRoom(s, code) == IF code \in RoomCodes THEN s.rooms[code] ELSE NoRoom
DeleteRoom(s, code) == IF code \in RoomCodes THEN [s EXCEPT !.rooms[code] = NoRoom] ELSE s
SaveSession(s, sessionID, playerID, roomCode) ==
    [s EXCEPT !.sessions[sessionID] = [PlayerID |-> playerID, RoomCode |-> roomCode]]
GetSession(s, sessionID) == s.sessions[sessionID]

\* s with Client c replaced by cl
WithConn(s, c, cl) == [s EXCEPT !.conn = [x \in Conns |-> IF x = c THEN cl ELSE s.conn[x]]]

\* a send that does not look at the capacity of the channel
EnqueueUnbounded(q, m) == Append(q, m)

\* the non-blocking send on Client.send
Enqueue(q, m) == IF Len(q) < SendBufferSize THEN Append(q, m) ELSE q

SendTo(s, targets, m) ==
    [s EXCEPT !.conn = [x \in Conns |->
        IF x \in targets THEN [s.conn[x] EXCEPT !.send = Enqueue(@, m)] ELSE s.conn[x]]]

SendMessage(s, c, m) == SendTo(s, {c}, m)
sendError(s, c, code) == SendMessage(s, c, Msg("ERROR:" \o code, 0, NoRoomState))

InRoom(s, roomCode) == {c \in s.clients : s.conn[c].RoomCode = roomCode}
BroadcastToRoom(s, roomCode, m) == SendTo(s, InRoom(s, roomCode), m)
BroadcastToRoomExcept(s, roomCode, excludeSessionID, m) ==
    SendTo(s, {c \in InRoom(s, roomCode) : s.conn[c].SessionID # excludeSessionID}, m)

RoomClosed == Msg("ROOM_CLOSED", 0, NoRoomState)

\* handler of connection c back at ReadMessage
Idle(s, c) == WithConn(s, c, [s.conn[c] EXCEPT !.pc = "idle", !.code = "", !.room = NoRoom])

(* handleWebSocket, with the hub's register case *)

Connect(s, c, sessionID) ==
    LET session == GetSession(s, sessionID)
        r == GetRoom(s, session.RoomCode)
        bound == session # NoSession /\ r # NoRoom
        s1 == WithConn(s, c, [s.conn[c] EXCEPT !.SessionID = sessionID])
        s2 == IF bound
              THEN WithConn([s1 EXCEPT !.heap[r] = MarkPlayerConnected(@, session.PlayerID)],
                            c, [s1.conn[c] EXCEPT !.RoomCode = session.RoomCode,
                                                  !.PlayerID = session.PlayerID])
              ELSE s1
        s3 == WithConn([s2 EXCEPT !.clients = @ \cup {c}, !.hubSessions[sessionID] = c],
                       c, [s2.conn[c] EXCEPT !.state = "open"])
        s4 == SendMessage(s3, c, Msg("CONNECTED", 0, NoRoomState))
    IN IF bound
       THEN BroadcastToRoom(
                SendMessage(s4, c, Msg("RECONNECTED", 0, ToProtocol(s4.heap[r]))),
                session.RoomCode, Msg("ROOM_UPDATED", 0, ToProtocol(s4.heap[r])))
       ELSE s4

(* the hub's unregister case, with handlePlayerDisconnect *)

handlePlayerDisconnect(s, c) ==
    LET roomCode == s.conn[c].RoomCode
        playerID == s.conn[c].PlayerID
        r == GetRoom(s, roomCode)
    IN IF r = NoRoom THEN {s}
       ELSE IF s.heap[r].HostID = playerID
       THEN {BroadcastToRoomExcept(DeleteRoom(s, roomCode), roomCode,
                                   s.conn[c].SessionID, RoomClosed)}
       ELSE {[s EXCEPT !.heap[r] = r2, !.hub = [pc |-> "removed", c |-> c, room |-> r]] :
                r2 \in RemovePlayer(s.heap[r], playerID)}

\* the unregister case without the removal from Hub.clients
UnregisterKeepsClient(s, c) ==
    LET s1 == WithConn([s EXCEPT !.hubSessions[s.conn[c].SessionID] = NoConn],
                       c, [s.conn[c] EXCEPT !.state = "closed"])
    IN IF s.conn[c].RoomCode # "" THEN handlePlayerDisconnect(s1, c) ELSE {s1}

Unregister(s, c) ==
    LET s1 == WithConn([s EXCEPT !.clients = @ \ {c},
                                 !.hubSessions[s.conn[c].SessionID] = NoConn],
                       c, [s.conn[c] EXCEPT !.state = "closed"])
    IN IF s.conn[c].RoomCode # "" THEN handlePlayerDisconnect(s1, c) ELSE {s1}

\* handlePlayerDisconnect after RemovePlayer
AfterRemove(s) ==
    LET c == s.hub.c
        roomCode == s.conn[c].RoomCode
        s1 == [s EXCEPT !.hub = HubIdle]
    IN IF IsEmpty(s.heap[s.hub.room])
       THEN DeleteRoom(s1, roomCode)
       ELSE BroadcastToRoom(s1, roomCode, Msg("PLAYER_LEFT", s.conn[c].PlayerID, NoRoomState))

(* handleCreateRoom *)

\* up to the return of generateRoomCode: a code that is free when it is looked
\* up, or none when every attempt met a live code
CreateGen(s, c) ==
    LET s1 == WithConn(s, c, [s.conn[c] EXCEPT !.RoomCode = "", !.PlayerID = NoPlayer])
        free == {k \in RoomCodes : s.rooms[k] = NoRoom}
    IN {WithConn(s1, c, [s1.conn[c] EXCEPT !.pc = "create", !.code = k]) : k \in free}
       \cup (IF free # RoomCodes THEN {sendError(s1, c, "CREATE_FAILED")} ELSE {})

\* from NewRoom to the end of the handler
CreateInsert(s, c) ==
    LET code == s.conn[c].code
        playerID == s.nextID
        room == NewRoom(code, playerID)
        s1 == WithConn([s EXCEPT !.heap = Append(@, room),
                                 !.rooms[code] = Len(s.heap) + 1,
                                 !.nextID = @ + 1],
                       c, [s.conn[c] EXCEPT !.RoomCode = code, !.PlayerID = playerID])
        s2 == SaveSession(s1, s.conn[c].SessionID, playerID, code)
    IN Idle(SendMessage(s2, c, Msg("ROOM_CREATED", 0, ToProtocol(room))), c)

(* handleJoinRoom *)

\* the checks of JoinRoom with the last two exchanged
JoinRoomErrFullFirst(s, code) ==
    LET r == GetRoom(s, code) IN
    IF r = NoRoom THEN "room not found"
    ELSE IF IsFull(s.heap[r]) THEN "room is full"
    ELSE IF s.heap[r].Status # "waiting" THEN "game already in progress"
    ELSE ""

JoinRoomErr(s, code) ==
    LET r == GetRoom(s, code) IN
    IF r = NoRoom THEN "room not found"
    ELSE IF s.heap[r].Status # "waiting" THEN "game already in progress"
    ELSE IF IsFull(s.heap[r]) THEN "room is full"
    ELSE ""

\* up to the return of Room.IsFull
JoinCheck(s, c, code) ==
    IF JoinRoomErr(s, code) # ""
    THEN sendError(s, c, "JOIN_FAILED:" \o JoinRoomErr(s, code))
    ELSE WithConn(s, c, [s.conn[c] EXCEPT !.pc = "join", !.room = GetRoom(s, code)])

\* from Room.AddPlayer to the end of the handler
JoinAdd(s, c) ==
    LET r == s.conn[c].room
        playerID == s.nextID
        roomCode == s.heap[r].Code
        s1 == WithConn([s EXCEPT !.heap[r] = AddPlayer(@, playerID), !.nextID = @ + 1],
                       c, [s.conn[c] EXCEPT !.RoomCode = roomCode, !.PlayerID = playerID])
        s2 == SaveSession(s1, s.conn[c].SessionID, playerID, roomCode)
        s3 == SendMessage(s2, c, Msg("ROOM_JOINED", 0, ToProtocol(s2.heap[r])))
    IN Idle(BroadcastToRoomExcept(s3, roomCode, s.conn[c].SessionID,
                                  Msg("PLAYER_JOINED", playerID, NoRoomState)), c)

(* handleLeaveRoom *)

\* the handler after LeaveRoom has returned
LeaveDone(s, c) ==
    LET s1 == BroadcastToRoomExcept(s, s.conn[c].RoomCode, s.conn[c].SessionID,
                                    Msg("PLAYER_LEFT", s.conn[c].PlayerID, NoRoomState))
    IN Idle(WithConn(s1, c, [s1.conn[c] EXCEPT !.RoomCode = "", !.PlayerID = NoPlayer]), c)

\* up to the return of Room.RemovePlayer
LeaveRemove(s, c) ==
    LET r == GetRoom(s, s.conn[c].RoomCode) IN
    IF s.conn[c].RoomCode = "" THEN {sendError(s, c, "NOT_IN_ROOM")}
    ELSE IF r = NoRoom THEN {LeaveDone(s, c)}
    ELSE {WithConn([s EXCEPT !.heap[r] = r2], c,
                   [s.conn[c] EXCEPT !.pc = "leave", !.room = r]) :
             r2 \in RemovePlayer(s.heap[r], s.conn[c].PlayerID)}

\* LeaveRoom without the deletion of an empty room
LeaveFinishKeepsRoom(s, c) == LeaveDone(s, c)

\* from Room.IsEmpty to the end of the handler
LeaveFinish(s, c) ==
    IF IsEmpty(s.heap[s.conn[c].room])
    THEN LeaveDone(DeleteRoom(s, s.conn[c].RoomCode), c)
    ELSE LeaveDone(s, c)

(* handleKickPlayer, handleUpdateSettings, handleStartGame *)

HostErr(s, c) ==
    LET r == GetRoom(s, s.conn[c].RoomCode) IN
    IF s.conn[c].RoomCode = "" THEN "NOT_IN_ROOM"
    ELSE IF r = NoRoom THEN "ROOM_NOT_FOUND"
    ELSE IF s.heap[r].HostID # s.conn[c].PlayerID THEN "NOT_HOST"
    ELSE ""

KickErr(s, c, target) ==
    IF HostErr(s, c) # "" THEN HostErr(s, c)
    ELSE IF target = s.conn[c].PlayerID THEN "INVALID_KICK"
    ELSE IF target \notin DOMAIN s.heap[GetRoom(s, s.conn[c].RoomCode)].Players
    THEN "PLAYER_NOT_FOUND"
    ELSE ""

KickPlayer(s, c, target) ==
    LET r == GetRoom(s, s.conn[c].RoomCode) IN
    IF KickErr(s, c, target) # "" THEN {sendError(s, c, KickErr(s, c, target))}
    ELSE {BroadcastToRoom([s EXCEPT !.heap[r] = r2], s.conn[c].RoomCode,
                          Msg("PLAYER_KICKED", target, NoRoomState)) :
             r2 \in RemovePlayer(s.heap[r], target)}

UpdateSettingsErr(s, c) ==
    IF HostErr(s, c) # "" THEN HostErr(s, c)
    ELSE IF s.heap[GetRoom(s, s.conn[c].RoomCode)].Status # "waiting" THEN "GAME_IN_PROGRESS"
    ELSE ""

UpdateSettings(s, c, maxPlayers) ==
    LET r == GetRoom(s, s.conn[c].RoomCode) IN
    IF UpdateSettingsErr(s, c) # "" THEN sendError(s, c, UpdateSettingsErr(s, c))
    ELSE BroadcastToRoom([s EXCEPT !.heap[r] = FromProtocol(@, maxPlayers)],
                         s.conn[c].RoomCode, Msg("SETTINGS_CHANGED", maxPlayers, NoRoomState))

StartGameErr(s, c) ==
    IF HostErr(s, c) # "" THEN HostErr(s, c)
    ELSE IF Cardinality(GetConnectedPlayers(s.heap[GetRoom(s, s.conn[c].RoomCode)])) < MinPlayers
    THEN "NOT_ENOUGH_PLAYERS"
    ELSE ""

NewCountdown(roomCode) ==
    [code |-> roomCode, room |-> NoRoom, pc |-> "begin", i |-> CountdownFrom, log |-> <<>>]

HandleStartGame(s, c) ==
    IF StartGameErr(s, c) # "" THEN sendError(s, c, StartGameErr(s, c))
    ELSE [s EXCEPT !.countdowns = Append(@, NewCountdown(s.conn[c].RoomCode))]

(* handlePlayCard, handleSlap, handleEndGame and the default case of          *)
(* handleMessage. The cards of a room's Game are not part of the server      *)
(* state: a call into the Game returns any result that the Game can give to  *)
(* the caller                                                                *)

GamePlayers(r) == {r.Game.TurnOrder[j] : j \in DOMAIN r.Game.TurnOrder}

\* the checks that handlePlayCard and handleSlap begin with
GameErr(s, c) ==
    LET r == GetRoom(s, s.conn[c].RoomCode) IN
    IF s.conn[c].RoomCode = "" THEN "NOT_IN_ROOM"
    ELSE IF r = NoRoom THEN "ROOM_NOT_FOUND"
    ELSE IF ~s.heap[r].Game.active THEN "NO_GAME"
    ELSE ""

\* Game.PlayCard gives an error to a player whose turn it is not, and a card
\* or an error to a player of the turn order
ClientPlayCard(s, c) ==
    LET r == GetRoom(s, s.conn[c].RoomCode)
        roomCode == s.conn[c].RoomCode
    IN IF GameErr(s, c) # "" THEN {sendError(s, c, GameErr(s, c))}
       ELSE {sendError(s, c, "PLAY_FAILED")}
            \cup (IF s.conn[c].PlayerID \in GamePlayers(s.heap[r])
                  THEN {BroadcastToRoom(
                            BroadcastToRoom([s EXCEPT !.heap[r].Game.timer = TRUE], roomCode,
                                            Msg("CARD_PLAYED", s.conn[c].PlayerID, NoRoomState)),
                            roomCode, Msg("TURN_CHANGED", 0, NoRoomState))}
                  ELSE {})

\* the broadcast of PLAYER_ELIMINATED for the players that
\* Game.CheckEliminations returns, in the order of the turn order
RECURSIVE BroadcastEliminated(_, _, _, _)
BroadcastEliminated(s, roomCode, order, eliminated) ==
    IF order = <<>> THEN s
    ELSE BroadcastEliminated(
             IF Head(order) \in eliminated
             THEN BroadcastToRoom(s, roomCode, Msg("PLAYER_ELIMINATED", Head(order), NoRoomState))
             ELSE s,
             roomCode, Tail(order), eliminated)

\* player.Name and winnerPlayer.Name are read from the *Player that
\* Room.GetPlayer returns, which is nil for an id that is not in the roster:
\* the read panics in the goroutine of readPump and the process exits
ClientSlap(s, c) ==
    LET r == GetRoom(s, s.conn[c].RoomCode)
        roomCode == s.conn[c].RoomCode
        playerID == s.conn[c].PlayerID
        panic == [s EXCEPT !.crashed = TRUE]
    IN IF GameErr(s, c) # "" THEN {sendError(s, c, GameErr(s, c))}
       ELSE IF playerID \notin DOMAIN s.heap[r].Players THEN {panic}
       ELSE LET s0 == BroadcastToRoom(
                          BroadcastToRoom(s, roomCode, Msg("SLAP_ATTEMPTED", playerID, NoRoomState)),
                          roomCode, Msg("SLAP_RESULT", playerID, NoRoomState))
            IN UNION {
                 LET s1 == BroadcastEliminated(s0, roomCode, s.heap[r].Game.TurnOrder, eliminated)
                 IN {s1, BroadcastToRoom(s1, roomCode, Msg("TURN_CHANGED", playerID, NoRoomState))}
                    \cup {IF winner \in DOMAIN s.heap[r].Players
                           THEN [BroadcastToRoom(s1, roomCode, Msg("GAME_OVER", winner, NoRoomState))
                                    EXCEPT !.heap[r].Status = "finished"]
                           ELSE [s1 EXCEPT !.crashed = TRUE] :
                              winner \in GamePlayers(s.heap[r]) \ eliminated} :
                 eliminated \in SUBSET GamePlayers(s.heap[r])}

ClientEndGame(s, c) ==
    LET r == GetRoom(s, s.conn[c].RoomCode)
        roomCode == s.conn[c].RoomCode
        s1 == [s EXCEPT !.heap[r].Game = NoGame, !.heap[r].Status = "waiting"]
    IN IF HostErr(s, c) # "" THEN sendError(s, c, HostErr(s, c))
       ELSE BroadcastToRoom(BroadcastToRoom(s1, roomCode, Msg("GAME_ENDED", 0, NoRoomState)),
                            roomCode, Msg("ROOM_UPDATED", 0, ToProtocol(s1.heap[r])))

ClientUnknown(s, c) == sendError(s, c, "UNKNOWN_MESSAGE")

(* StartGameCountdown; `log` is the history of the steps the task has made *)

\* up to the first tick: GetRoom, Status = "starting"
CountdownBegin(s, k) ==
    LET t == s.countdowns[k]
        r == GetRoom(s, t.code)
    IN IF r = NoRoom
       THEN [s EXCEPT !.countdowns[k].pc = "done"]
       ELSE [s EXCEPT !.heap[r].Status = "starting",
                      !.countdowns[k] = [t EXCEPT !.room = r, !.pc = "tick",
                                                  !.log = Append(@, "starting")]]

\* one turn of the loop: the broadcast of GAME_STARTING and the sleep
CountdownTick(s, k) ==
    LET t == s.countdowns[k]
        s1 == BroadcastToRoom(s, t.code, Msg("GAME_STARTING", t.i, NoRoomState))
    IN [s1 EXCEPT !.countdowns[k] =
           [t EXCEPT !.i = t.i - 1,
                     !.pc = IF t.i - 1 > 0 THEN "tick" ELSE "start",
                     !.log = Append(@, "tick" \o ToString(t.i))]]

\* the three broadcasts that follow Room.StartGame, cards dealt first
StartedBroadcastsDealtFirst(s, roomCode, snapshot) ==
    BroadcastToRoom(
        BroadcastToRoom(
            BroadcastToRoom(s, roomCode, Msg("CARDS_DEALT", 0, NoRoomState)),
            roomCode, Msg("GAME_STARTED", 0, snapshot)),
        roomCode, Msg("TURN_CHANGED", 0, NoRoomState))

StartedBroadcasts(s, roomCode, snapshot) ==
    BroadcastToRoom(
        BroadcastToRoom(
            BroadcastToRoom(s, roomCode, Msg("GAME_STARTED", 0, snapshot)),
            roomCode, Msg("CARDS_DEALT", 0, NoRoomState)),
        roomCode, Msg("TURN_CHANGED", 0, NoRoomState))

\* after the loop: Room.StartGame (a panic in Deck.Deal when no player is
\* connected), the broadcasts, the first turn timer
CountdownStart(s, k) ==
    LET t == s.countdowns[k]
        done == [t EXCEPT !.pc = "done"]
    IN IF RoomStartGame(s.heap[t.room]) = {}
       THEN {[s EXCEPT !.crashed = TRUE, !.countdowns[k] = done]}
       ELSE {[StartedBroadcasts([s EXCEPT !.heap[t.room] = r2], t.code, ToProtocol(r2))
                 EXCEPT !.heap[t.room].Game.timer = TRUE,
                        !.countdowns[k] =
                            [done EXCEPT !.log = @ \o <<"game", "playing", "GAME_STARTED",
                                                       "CARDS_DEALT", "TURN_CHANGED", "timer">>]] :
                r2 \in RoomStartGame(s.heap[t.room])}

\* one round of cleanupRoutine
Cleanup(s) ==
    [s EXCEPT !.rooms = [code \in RoomCodes |->
        IF s.rooms[code] # NoRoom
           /\ (IsEmpty(s.heap[s.rooms[code]]) \/ s.heap[s.rooms[code]].Status = "finished")
        THEN NoRoom ELSE s.rooms[code]]]

\* the last step of the server: operation, connection, countdown task, error,
\* and the room code that a join request names
Event(op, c, k, err) ==
    [op |-> op, c |-> c, k |-> k, err |-> err, code |-> "", except |-> ""]
NoEvent == Event("", NoConn, 0, "")

\* the server is in state s, and no request has been made
ServerAt(s) ==
    /\ rooms = s.rooms
    /\ sessions = s.sessions
    /\ clients = s.clients
    /\ hubSessions = s.hubSessions
    /\ heap = s.heap
    /\ conn = s.conn
    /\ hub = s.hub
    /\ countdowns = s.countdowns
    /\ nextID = s.nextID
    /\ crashed = s.crashed
    /\ srvOps = 0
    /\ lastSrv = NoEvent

----------------------------------------------------------------------------
(* Actions of the game *)

\* history kept in `raced`, for a slap call waiting for SlapMu:
\*   "same"  the pile offered a valid slap at the call and has not changed since
\*   "lost"  another player's slap has won that pile, and no card reached the pile since
\*   "stale" another player's slap has won that pile, and cards reached the pile since
\*   "beaten" the call was evaluated in state "lost"
\*   "no"    otherwise
PileChanged(r) ==
    [p \in Players |-> IF r[p] = "lost" THEN "stale" ELSE IF r[p] = "same" THEN "no" ELSE r[p]]

\* Client.handlePlayCard: PlayCard, then (on success) the next turn timer
HandlePlayCard(p) ==
    /\ pc[p] = "idle"
    /\ steps < MaxSteps
    /\ LET err == PlayCardErr(G, p) IN
       /\ SetGame(PlayCard(G, p))
       /\ IF err = ""
          THEN /\ \E ts \in AfterCancel(timers) : timers' = StartTimer(ts, nextGen)
               /\ nextGen' = nextGen + 1
               /\ raced' = PileChanged(raced)
          ELSE UNCHANGED <<timers, nextGen, raced>>
       /\ lastOp' = [op |-> "play", player |-> p, ok |-> err = "", reason |-> err]
    /\ steps' = steps + 1
    /\ UNCHANGED <<Rules, BurnPenalty, EnableSlapIn, LastSlapTime, SlapMu, roomStatus, pc,
                   slapRes, now, lastAttemptTime, lastPassedTime, fnVars, srvVars>>

\* Client.handleSlap up to the call of ProcessSlap, which waits for SlapMu
SlapCall(p) ==
    /\ pc[p] = "idle"
    /\ steps < MaxSteps
    /\ pc' = [pc EXCEPT ![p] = "slapWait"]
    /\ steps' = steps + 1
    /\ lastOp' = [op |-> "slapCall", player |-> p, ok |-> TRUE, reason |-> ""]
    /\ raced' = [raced EXCEPT ![p] = IF IsValidSlap(PileCards, Rules) THEN "same" ELSE "no"]
    /\ UNCHANGED <<mem, PlayerHands, Pile, CurrentTurnIdx, Rules, BurnPenalty, EnableSlapIn,
                   SlapInCounts, LastSlapTime, SlapWindowOpen, SlapMu, Stats, timers, nextGen,
                   roomStatus, slapRes, now, lastAttemptTime, lastPassedTime, fnVars, srvVars>>

\* ProcessSlap from SlapMu.Lock() to the cooldown check
SlapEnter(p) ==
    /\ pc[p] = "slapWait"
    /\ SlapMu = Free
    /\ lastAttemptTime' = [lastAttemptTime EXCEPT ![p] = now]
    /\ IF InCooldown(p)
       THEN /\ SetGame(CooldownRejected(G, p))
            /\ slapRes' = [slapRes EXCEPT ![p] =
                              [ok |-> FALSE, reason |-> "cooldown", burn |-> 0, won |-> 0]]
            /\ pc' = [pc EXCEPT ![p] = "slapChecks"]
            /\ raced' = [raced EXCEPT ![p] = "no"]
            /\ UNCHANGED <<LastSlapTime, SlapMu, lastPassedTime>>
       ELSE /\ Stats' = [Stats EXCEPT !.TotalSlaps = @ + 1]
            /\ LastSlapTime' = [LastSlapTime EXCEPT ![p] = now]
            /\ lastPassedTime' = [lastPassedTime EXCEPT ![p] = now]
            /\ SlapMu' = p
            /\ pc' = [pc EXCEPT ![p] = "slapLocked"]
            /\ UNCHANGED <<mem, PlayerHands, Pile, CurrentTurnIdx, SlapWindowOpen,
                           SlapInCounts, slapRes, raced>>
    /\ UNCHANGED <<Rules, BurnPenalty, EnableSlapIn, timers, nextGen, roomStatus, now, lastOp,
                   steps, fnVars, srvVars>>

\* ProcessSlap from Game.mu.Lock() to its return (both locks released)
SlapResolve(p) ==
    /\ pc[p] = "slapLocked"
    /\ SlapMu = p
    /\ LET r == ProcessSlapLocked(G, p, BurnPenalty, Rules, EnableSlapIn) IN
       /\ SetGame(r.g)
       /\ slapRes' = [slapRes EXCEPT ![p] = r.res]
       /\ raced' = [q \in Players |->
                       IF q = p THEN (IF raced[p] = "lost" THEN "beaten" ELSE "no")
                       ELSE IF r.res.ok /\ raced[q] = "same" THEN "lost"
                       ELSE IF r.res.burn > 0 THEN PileChanged(raced)[q]
                       ELSE raced[q]]
    /\ SlapMu' = Free
    /\ pc' = [pc EXCEPT ![p] = "slapChecks"]
    /\ UNCHANGED <<Rules, BurnPenalty, EnableSlapIn, LastSlapTime, timers, nextGen, roomStatus,
                   now, lastOp, steps, lastAttemptTime, lastPassedTime, fnVars, srvVars>>

\* Client.handleSlap after ProcessSlap: CheckEliminations, CheckWinner
SlapChecks(p) ==
    /\ pc[p] = "slapChecks"
    /\ roomStatus' = IF CheckWinner(G, Rules) # "" THEN "finished" ELSE roomStatus
    /\ pc' = [pc EXCEPT ![p] = "idle"]
    /\ slapRes' = [slapRes EXCEPT ![p] = NoRes]
    /\ UNCHANGED <<mem, PlayerHands, Pile, CurrentTurnIdx, Rules, BurnPenalty, EnableSlapIn,
                   SlapInCounts, LastSlapTime, SlapWindowOpen, SlapMu, Stats, timers, nextGen,
                   now, lastOp, steps, lastAttemptTime, lastPassedTime, raced, fnVars, srvVars>>

\* the warning task of a turn timer fires (broadcasts TURN_WARNING)
TimerWarning(t) ==
    /\ t.warn
    /\ timers' = Pending((timers \ {t}) \cup {[t EXCEPT !.warn = FALSE]})
    /\ UNCHANGED <<mem, PlayerHands, Pile, CurrentTurnIdx, Rules, BurnPenalty, EnableSlapIn,
                   SlapInCounts, LastSlapTime, SlapWindowOpen, SlapMu, Stats, nextGen,
                   roomStatus, pc, slapRes, now, lastOp, steps, lastAttemptTime,
                   lastPassedTime, raced, fnVars, srvVars>>

\* the timeout task of a turn timer fires: auto-play for the current player
TimerTimeout(t) ==
    /\ t.timeout
    /\ ~t.warn
    /\ steps < MaxSteps
    /\ LET currentPlayer == TurnOrder[CurrentTurnIdx + 1]
           rest == Pending((timers \ {t}) \cup {[t EXCEPT !.timeout = FALSE]})
       IN IF PlayerHands[currentPlayer].len > 0
          THEN /\ SetGame(AutoPlay(G))
               /\ timers' = StartTimer(rest, nextGen)
               /\ nextGen' = nextGen + 1
               /\ raced' = PileChanged(raced)
               /\ lastOp' = [op |-> "auto", player |-> currentPlayer, ok |-> TRUE, reason |-> ""]
          ELSE /\ timers' = rest
               /\ lastOp' = [op |-> "auto", player |-> currentPlayer, ok |-> FALSE, reason |-> ""]
               /\ UNCHANGED <<mem, PlayerHands, Pile, CurrentTurnIdx, SlapWindowOpen,
                              SlapInCounts, Stats, nextGen, raced>>
    /\ steps' = steps + 1
    /\ UNCHANGED <<Rules, BurnPenalty, EnableSlapIn, LastSlapTime, SlapMu, roomStatus, pc,
                   slapRes, now, lastAttemptTime, lastPassedTime, fnVars, srvVars>>

\* time passes (observable only through a cooldown in progress)
Tick ==
    /\ now < MaxTicks * TickMs
    /\ \E p \in Players : InCooldown(p)
    /\ now' = now + TickMs
    /\ UNCHANGED <<mem, PlayerHands, Pile, CurrentTurnIdx, Rules, BurnPenalty, EnableSlapIn,
                   SlapInCounts, LastSlapTime, SlapWindowOpen, SlapMu, Stats, timers, nextGen,
                   roomStatus, pc, slapRes, lastOp, steps, lastAttemptTime, lastPassedTime,
                   raced, fnVars, srvVars>>

Init ==
    /\ \E deck \in ShuffleOutcomes : \E st \in SettingsChoices : NewGame(deck, st)
    /\ arg = <<>>
    /\ ret = ""
    /\ ServerAt(NewHub)

Next ==
    \/ \E p \in Players : HandlePlayCard(p)
    \/ \E p \in Players : SlapCall(p)
    \/ \E p \in Players : SlapEnter(p)
    \/ \E p \in Players : SlapResolve(p)
    \/ \E p \in Players : SlapChecks(p)
    \/ \E t \in timers : TimerWarning(t)
    \/ \E t \in timers : TimerTimeout(t)
    \/ Tick

Spec == Init /\ [][Next]_vars

----------------------------------------------------------------------------
(* Late positions of a game: the game is continued from positions that a    *)
(* sequence of timer auto-plays and slaps (each outside its cooldown, none  *)
(* concurrent with another) leads to                                        *)

StartGame(deck) ==
    [mem    |-> [a \in Players \cup {PileArr} |->
                    IF a = PileArr THEN Zeroes(DeckSize) ELSE Deal(deck)[a]],
     hands  |-> [p \in Players |-> MkSlice(p, 0, DealLen(SeatOf(p)), DealCap)],
     pile   |-> MkSlice(PileArr, 0, 0, DeckSize),
     idx    |-> 0,
     window |-> FALSE,
     slapIn |-> [p \in Players |-> 0],
     stats  |-> [TotalSlaps |-> 0,
                 SuccessfulSlaps |-> [p \in Players |-> 0],
                 CardsBurned |-> [p \in Players |-> 0]]]

\* a position: the game, the room status, the number of StartTurnTimer calls,
\* whether the last timer is still armed, and the players that have slapped
StartPosition(deck) ==
    [g |-> StartGame(deck), status |-> "playing", started |-> 1, armed |-> TRUE, slapped |-> {}]

\* op is "auto" (the armed timer runs out) or the id of a player who slaps
PositionAfter(r, op, st) ==
    IF op = "auto"
    THEN IF ~r.armed THEN r
         ELSE IF r.g.hands[TurnOrder[r.g.idx + 1]].len > 0
         THEN [r EXCEPT !.g = AutoPlay(r.g), !.started = @ + 1]
         ELSE [r EXCEPT !.armed = FALSE]
    ELSE LET rules == [EnableDoubles |-> st.EnableDoubles, EnableSandwich |-> st.EnableSandwich]
             x == ProcessSlapLocked(CooldownRejected(r.g, op), op, st.BurnPenalty, rules,
                                    st.EnableSlapIn)
         IN [r EXCEPT !.g = x.g,
                      !.status = IF CheckWinner(x.g, rules) # "" THEN "finished" ELSE @,
                      !.slapped = @ \cup {op}]

RECURSIVE Replay(_, _, _)
Replay(r, ops, st) ==
    IF ops = <<>> THEN r ELSE Replay(PositionAfter(r, Head(ops), st), Tail(ops), st)

\* the second player wins two piles of doubles and the first player runs out of cards
\* on a pile that offers a slap; then the first player slaps back in and runs out again
LateOps ==
    LET first == TurnOrder[1]
        second == TurnOrder[2]
        out == <<"auto", "auto", second, "auto", "auto", second, "auto", "auto">>
    IN {out, out \o <<first, "auto", "auto", "auto">>}

LateSettings == {DefaultSettings, [DefaultSettings EXCEPT !.EnableSlapIn = FALSE]}

InitLate ==
    \E ops \in LateOps : \E st \in LateSettings :
        LET r == Replay(StartPosition(Reverse(RankMajor)), ops, st) IN
        /\ mem = r.g.mem
        /\ PlayerHands = r.g.hands
        /\ Pile = r.g.pile
        /\ CurrentTurnIdx = r.g.idx
        /\ SlapWindowOpen = r.g.window
        /\ SlapInCounts = r.g.slapIn
        /\ Stats = r.g.stats
        /\ Rules = [EnableDoubles |-> st.EnableDoubles, EnableSandwich |-> st.EnableSandwich]
        /\ BurnPenalty = st.BurnPenalty
        /\ EnableSlapIn = st.EnableSlapIn
        /\ LastSlapTime = [p \in Players |-> IF p \in r.slapped THEN 0 - SlapCooldownMs ELSE NoTime]
        /\ lastAttemptTime = LastSlapTime
        /\ lastPassedTime = LastSlapTime
        /\ SlapMu = Free
        /\ timers = IF r.armed THEN {[gen |-> r.started - 1, warn |-> TRUE, timeout |-> TRUE]}
                     ELSE {}
        /\ nextGen = r.started
        /\ roomStatus = r.status
        /\ pc = [p \in Players |-> "idle"]
        /\ slapRes = [p \in Players |-> NoRes]
        /\ now = 0
        /\ lastOp = NoOp
        /\ steps = 0
        /\ raced = [p \in Players |-> "no"]
        /\ arg = <<>>
        /\ ret = ""
        /\ ServerAt(NewHub)

SpecLate == InitLate /\ [][Next]_vars

----------------------------------------------------------------------------
(* Rules.CheckSlap applied to every pile of at most MaxPileLen cards *)

\* the sequences of at most n distinct elements of S
RECURSIVE SeqsUpTo(_, _)
SeqsUpTo(S, n) ==
    IF n = 0 THEN {<<>>}
    ELSE LET shorter == SeqsUpTo(S, n - 1)
             longest == {t \in shorter : Len(t) = n - 1}
         IN shorter \cup
            UNION {{Append(s, c) : c \in S \ {s[i] : i \in 1..Len(s)}} : s \in longest}

InitRules ==
    /\ NewGame(NewDeck, DefaultSettings)
    /\ arg \in [pile : SeqsUpTo(DeckCards, MaxPileLen),
                rules : [EnableDoubles : BOOLEAN, EnableSandwich : BOOLEAN]]
    /\ ret = ""
    /\ ServerAt(NewHub)

CallCheckSlap ==
    /\ ret = ""
    /\ ret' = CheckSlap(arg.pile, arg.rules)
    /\ UNCHANGED <<arg, gameVars, srvVars>>

NextRules == CallCheckSlap

SpecRules == InitRules /\ [][NextRules]_vars

----------------------------------------------------------------------------
(* A game of three seats: the least table at which two players can hold    *)
(* cards while it is the turn of a third.  The Game object is the record   *)
(* arg.g, the room's settings arg.st, the turn timers arg.timers           *)

Table == SubSeq(AllPlayerIDs, 1, MinPlayers + 1)
SeatIDs == {Table[i] : i \in 1..Len(Table)}
SeatAt(p) == CHOOSE k \in 1..Len(Table) : Table[k] = p

\* Deck.Deal for the three seats
SeatsDealCap == (DeckSize \div Len(Table)) + 1
SeatsDealLen(i) == (DeckSize \div Len(Table)) + (IF i <= DeckSize % Len(Table) THEN 1 ELSE 0)
SeatsDeal(deck) ==
    [p \in SeatIDs |->
        [k \in 1..SeatsDealCap |->
            IF k <= SeatsDealLen(SeatAt(p)) THEN deck[(k - 1) * Len(Table) + SeatAt(p)]
            ELSE NoCard]]

\* NewGame(deck, settings) for the three seats, and the first StartTurnTimer
SeatsNewGame(deck, st) ==
    [g       |-> [mem    |-> [a \in SeatIDs \cup {PileArr} |->
                                 IF a = PileArr THEN Zeroes(DeckSize) ELSE SeatsDeal(deck)[a]],
                  hands  |-> [p \in SeatIDs |->
                                 MkSlice(p, 0, SeatsDealLen(SeatAt(p)), SeatsDealCap)],
                  pile   |-> MkSlice(PileArr, 0, 0, DeckSize),
                  idx    |-> 0,
                  window |-> FALSE,
                  slapIn |-> [p \in SeatIDs |-> 0],
                  stats  |-> [TotalSlaps |-> 0,
                              SuccessfulSlaps |-> [p \in SeatIDs |-> 0],
                              CardsBurned |-> [p \in SeatIDs |-> 0]]],
     st      |-> st,
     slapped |-> {},
     timers  |-> {[gen |-> 0, warn |-> TRUE, timeout |-> TRUE]},
     gen     |-> 1,
     status  |-> "playing",
     steps   |-> 0,
     last    |-> [op |-> "none", player |-> "", ok |-> FALSE, reason |-> ""]]

\* Game.advanceTurn
RECURSIVE seatsAdvanceLoop(_, _, _)
seatsAdvanceLoop(hands, idx, startIdx) ==
    LET next == (idx + 1) % Len(Table) IN
    IF hands[Table[next + 1]].len > 0 THEN next
    ELSE IF next = startIdx THEN next
    ELSE seatsAdvanceLoop(hands, next, startIdx)

seatsAdvanceTurn(g) == [g EXCEPT !.idx = seatsAdvanceLoop(g.hands, g.idx, g.idx)]

\* Game.PlayCard
SeatsPlayCardErr(g, p) ==
    IF Table[g.idx + 1] # p THEN "not your turn"
    ELSE IF g.hands[p].len = 0 THEN "no cards to play"
    ELSE ""

SeatsPlayCard(g, p) ==
    IF SeatsPlayCardErr(g, p) # "" THEN g
    ELSE seatsAdvanceTurn([MoveFrontCard(g, p) EXCEPT !.window = TRUE])

\* the part of Game.ProcessSlap that runs with Game.mu held
SeatsProcessSlapLocked(g, p, penalty, rules, slapInEnabled) ==
    LET playerHasCards == g.hands[p].len > 0
        reason == CheckSlap(Read(g.mem, g.pile), rules)
        canSlapIn == slapInEnabled /\ g.slapIn[p] < MaxSlapIns
    IN IF ~playerHasCards /\ ~canSlapIn
       THEN [g |-> g, res |-> [ok |-> FALSE, reason |-> "eliminated", burn |-> 0, won |-> 0]]
       ELSE IF ~playerHasCards /\ reason = SlapReasonInvalid
       THEN [g |-> g, res |-> [ok |-> FALSE, reason |-> reason, burn |-> 0, won |-> 0]]
       ELSE IF reason = SlapReasonInvalid
       THEN LET b == applyBurnPenalty(g, p, penalty) IN
            [g   |-> [b.g EXCEPT !.stats.CardsBurned[p] = @ + b.burnCount],
             res |-> [ok |-> FALSE, reason |-> reason, burn |-> b.burnCount, won |-> 0]]
       ELSE LET ap == GoAppend(g.mem, g.hands[p], Read(g.mem, g.pile), p) IN
            [g   |-> [g EXCEPT !.slapIn[p] = IF playerHasCards THEN @ ELSE @ + 1,
                               !.hands[p] = ap.slice,
                               !.mem = [ap.mem EXCEPT ![PileArr] = Zeroes(DeckSize)],
                               !.pile = MkSlice(PileArr, 0, 0, DeckSize),
                               !.window = FALSE,
                               !.stats.SuccessfulSlaps[p] = @ + 1,
                               !.idx = SeatAt(p) - 1],
             res |-> [ok |-> TRUE, reason |-> reason, burn |-> 0, won |-> g.pile.len]]

\* Game.CheckWinner
SeatsWithCards(g) == {p \in SeatIDs : g.hands[p].len > 0}

SeatsCheckWinner(g, rules) ==
    IF /\ Cardinality(SeatsWithCards(g)) = 1
       /\ (g.pile.len = 0 \/ ~IsValidSlap(Read(g.mem, g.pile), rules))
    THEN CHOOSE p \in SeatsWithCards(g) : TRUE
    ELSE ""

SeatsRules == [EnableDoubles |-> arg.st.EnableDoubles, EnableSandwich |-> arg.st.EnableSandwich]

\* Client.handlePlayCard: Game.PlayCard and, when it succeeds, StartTurnTimer
SeatsHandlePlayCard(p) ==
    /\ arg.steps < MaxSteps
    /\ LET err == SeatsPlayCardErr(arg.g, p)
           last == [op |-> "play", player |-> p, ok |-> err = "", reason |-> err]
       IN IF err = ""
          THEN \E ts \in AfterCancel(arg.timers) :
                  arg' = [arg EXCEPT !.g = SeatsPlayCard(arg.g, p),
                                     !.timers = StartTimer(ts, arg.gen),
                                     !.gen = @ + 1,
                                     !.steps = @ + 1,
                                     !.last = last]
          ELSE arg' = [arg EXCEPT !.steps = @ + 1, !.last = last]
    /\ UNCHANGED <<ret, gameVars, srvVars>>

\* Client.handleSlap: Game.ProcessSlap (rejected by the cooldown only for a player
\* who has slapped before), CheckEliminations, CheckWinner; it starts no turn timer
SeatsHandleSlap(p, inCooldown) ==
    /\ arg.steps < MaxSteps
    /\ inCooldown => p \in arg.slapped
    /\ LET r == IF inCooldown
                THEN [g   |-> CooldownRejected(arg.g, p),
                      res |-> [ok |-> FALSE, reason |-> "cooldown", burn |-> 0, won |-> 0]]
                ELSE SeatsProcessSlapLocked([arg.g EXCEPT !.stats.TotalSlaps = @ + 1], p,
                                            arg.st.BurnPenalty, SeatsRules, arg.st.EnableSlapIn)
       IN arg' = [arg EXCEPT !.g = r.g,
                             !.slapped = IF inCooldown THEN @ ELSE @ \cup {p},
                             !.status = IF SeatsCheckWinner(r.g, SeatsRules) # ""
                                        THEN "finished" ELSE @,
                             !.steps = @ + 1,
                             !.last = [op |-> "slap", player |-> p, ok |-> r.res.ok,
                                       reason |-> r.res.reason]]
    /\ UNCHANGED <<ret, gameVars, srvVars>>

\* the warning task of a turn timer fires
SeatsTimerWarning(t) ==
    /\ t.warn
    /\ arg' = [arg EXCEPT !.timers = Pending((@ \ {t}) \cup {[t EXCEPT !.warn = FALSE]})]
    /\ UNCHANGED <<ret, gameVars, srvVars>>

\* the timeout task of a turn timer fires: it plays for the current player and
\* starts the next timer, or returns when that player has no card
SeatsTimerTimeout(t) ==
    /\ t.timeout
    /\ ~t.warn
    /\ arg.steps < MaxSteps
    /\ LET currentPlayer == Table[arg.g.idx + 1]
           rest == Pending((arg.timers \ {t}) \cup {[t EXCEPT !.timeout = FALSE]})
       IN IF arg.g.hands[currentPlayer].len > 0
          THEN arg' = [arg EXCEPT !.g = seatsAdvanceTurn(
                                            [MoveFrontCard(arg.g, currentPlayer)
                                                EXCEPT !.window = TRUE]),
                                  !.timers = StartTimer(rest, arg.gen),
                                  !.gen = @ + 1,
                                  !.steps = @ + 1,
                                  !.last = [op |-> "auto", player |-> currentPlayer,
                                            ok |-> TRUE, reason |-> ""]]
          ELSE arg' = [arg EXCEPT !.timers = rest,
                                  !.steps = @ + 1,
                                  !.last = [op |-> "auto", player |-> currentPlayer,
                                            ok |-> FALSE, reason |-> ""]]
    /\ UNCHANGED <<ret, gameVars, srvVars>>

InitSeats ==
    /\ NewGame(NewDeck, DefaultSettings)
    /\ \E deck \in ShuffleOutcomes : \E st \in SettingsChoices : arg = SeatsNewGame(deck, st)
    /\ ret = ""
    /\ ServerAt(NewHub)

NextSeats ==
    \/ \E p \in SeatIDs : SeatsHandlePlayCard(p)
    \/ \E p \in SeatIDs : \E inCooldown \in BOOLEAN : SeatsHandleSlap(p, inCooldown)
    \/ \E t \in arg.timers : SeatsTimerWarning(t)
    \/ \E t \in arg.timers : SeatsTimerTimeout(t)

SpecSeats == InitSeats /\ [][NextSeats]_vars

----------------------------------------------------------------------------
(* The locks of one game: Game.mu and Room.mu (sync.RWMutex, where a writer *)
(* that has called Lock keeps later RLock calls waiting) and Game.SlapMu    *)
(* (sync.Mutex).  Every goroutine runs the lock operations of the function  *)
(* it has called, in order; arg holds the locks and the goroutines          *)

\* number of calls of game functions by the clients' handlers and the turn timer
MaxCalls == 3

Goroutines == {"countdown", "client1", "client2", "timer"}
NoGoroutine == ""
Mutexes == {"mu", "SlapMu", "roomMu"}

Instr(do, m) == [do |-> do, mu |-> m]
Locked(m, body) == <<Instr("Lock", m)>> \o body \o <<Instr("Unlock", m)>>
RLocked(m, body) == <<Instr("RLock", m)>> \o body \o <<Instr("RUnlock", m)>>

RECURSIVE Repeat(_, _)
Repeat(body, n) == IF n = 0 THEN <<>> ELSE body \o Repeat(body, n - 1)

\* the lock operations of a function of the game, in the order it runs them
Program(fn) ==
    CASE fn = "PlayCard"           -> Locked("mu", <<>>)
      [] fn = "GetCurrentPlayer"   -> RLocked("mu", <<>>)
      [] fn = "ProcessSlap"        -> Locked("SlapMu", Locked("mu", <<>>))
      [] fn = "ProcessSlapCooldown" -> Locked("SlapMu", <<>>)
      [] fn = "GetPlayerCardCount" -> RLocked("mu", <<>>)
      [] fn = "GetCardCounts"      -> RLocked("mu", <<>>)
      [] fn = "CheckEliminations"  -> Locked("mu", <<>>)
      [] fn = "CheckWinner"        -> RLocked("mu", <<>>)
      [] fn = "GetState"           -> RLocked("mu", RLocked("mu", <<>>))
      [] fn = "GetStats"           -> RLocked("mu", <<>>)
      [] fn = "AutoPlay"           -> Locked("mu", <<>>) \o RLocked("mu", <<>>)
      [] fn = "AutoPlayNoCards"    -> Locked("mu", <<>>)
      [] fn = "ToProtocol"         -> RLocked("roomMu", Repeat(RLocked("mu", <<>>), NumPlayers))

\* what StartGameCountdown calls after Room.StartGame, in this order, before it
\* starts the first turn timer
CountdownCalls == <<"GetState", "GetCardCounts", "GetCurrentPlayer">>

\* the functions a goroutine may call next: the countdown its next call, the
\* timeout task of a turn timer (started once the countdown is through) the
\* auto-play, the handlers of the clients' messages any of theirs
Menu(t) ==
    IF t = "countdown"
    THEN (IF arg.stage < Len(CountdownCalls) THEN {CountdownCalls[arg.stage + 1]} ELSE {})
    ELSE IF t = "timer"
    THEN (IF arg.stage = Len(CountdownCalls) /\ arg.prog["countdown"] = <<>>
          THEN {"AutoPlay", "AutoPlayNoCards"} ELSE {})
    ELSE {"PlayCard", "GetCurrentPlayer", "ProcessSlap", "ProcessSlapCooldown",
          "CheckEliminations", "CheckWinner", "GetStats", "ToProtocol"}

Functions ==
    {"PlayCard", "GetCurrentPlayer", "ProcessSlap", "ProcessSlapCooldown", "GetPlayerCardCount",
     "GetCardCounts", "CheckEliminations", "CheckWinner", "GetState", "GetStats", "AutoPlay",
     "AutoPlayNoCards", "ToProtocol"}

Unlocked == [readers |-> 0, writer |-> NoGoroutine, pending |-> NoGoroutine]

\* a goroutine inside a function, and the lock operation it is at
Running(t) == arg.prog[t] # <<>>
At(t, do) == Running(t) /\ Head(arg.prog[t]).do = do
MuOf(t) == arg.locks[Head(arg.prog[t]).mu]

\* RLock returns at once unless a writer holds the lock or waits for it
CanRLock(t) == At(t, "RLock") /\ MuOf(t).writer = NoGoroutine /\ MuOf(t).pending = NoGoroutine
\* Lock: one writer at a time announces itself, then waits for the readers to leave
CanAnnounce(t) == At(t, "Lock") /\ MuOf(t).writer = NoGoroutine /\ MuOf(t).pending = NoGoroutine
CanLock(t) == At(t, "Lock") /\ MuOf(t).pending = t /\ MuOf(t).readers = 0
CanStep(t) ==
    CanRLock(t) \/ CanAnnounce(t) \/ CanLock(t) \/ At(t, "RUnlock") \/ At(t, "Unlock")

LockStep(t, lock) ==
    /\ arg' = [arg EXCEPT !.locks[Head(arg.prog[t]).mu] = lock, !.prog[t] = Tail(@)]
    /\ UNCHANGED <<ret, gameVars, srvVars>>

\* a goroutine calls a function of the game (the calls of the clients' handlers
\* and of the timer are counted against MaxCalls)
CallGame(t, fn) ==
    /\ ~Running(t)
    /\ fn \in Menu(t)
    /\ IF t = "countdown"
       THEN arg' = [arg EXCEPT !.prog[t] = Program(fn), !.stage = @ + 1]
       ELSE /\ arg.calls < MaxCalls
            /\ arg' = [arg EXCEPT !.prog[t] = Program(fn), !.calls = @ + 1]
    /\ UNCHANGED <<ret, gameVars, srvVars>>

RLock(t) ==
    /\ CanRLock(t)
    /\ LockStep(t, [MuOf(t) EXCEPT !.readers = @ + 1])

RUnlock(t) ==
    /\ At(t, "RUnlock")
    /\ LockStep(t, [MuOf(t) EXCEPT !.readers = @ - 1])

\* Lock from its call to the point where it waits for the readers
LockAnnounce(t) ==
    /\ CanAnnounce(t)
    /\ arg' = [arg EXCEPT !.locks[Head(arg.prog[t]).mu].pending = t]
    /\ UNCHANGED <<ret, gameVars, srvVars>>

Lock(t) ==
    /\ CanLock(t)
    /\ LockStep(t, [MuOf(t) EXCEPT !.writer = t, !.pending = NoGoroutine])

Unlock(t) ==
    /\ At(t, "Unlock")
    /\ LockStep(t, [MuOf(t) EXCEPT !.writer = NoGoroutine])

InitLocks ==
    /\ NewGame(NewDeck, DefaultSettings)
    /\ arg = [locks |-> [m \in Mutexes |-> Unlocked],
              prog  |-> [t \in Goroutines |-> <<>>],
              stage |-> 0,
              calls |-> 0]
    /\ ret = ""
    /\ ServerAt(NewHub)

NextLocks ==
    \/ \E t \in Goroutines : \E fn \in Functions : CallGame(t, fn)
    \/ \E t \in Goroutines : RLock(t)
    \/ \E t \in Goroutines : RUnlock(t)
    \/ \E t \in Goroutines : LockAnnounce(t)
    \/ \E t \in Goroutines : Lock(t)
    \/ \E t \in Goroutines : Unlock(t)

SpecLocks == InitLocks /\ [][NextLocks]_vars

----------------------------------------------------------------------------
(* Actions of the room server *)

Step(s, ev) ==
    /\ SetSrv(s)
    /\ lastSrv' = ev
    /\ UNCHANGED <<gameVars, fnVars>>

\* a request of a client: the process is up, and the budget of requests is not spent
Request ==
    /\ ~crashed
    /\ srvOps < MaxOps
    /\ srvOps' = srvOps + 1

\* a request that connection c sends: its readPump is waiting in ReadMessage
Receives(c) ==
    /\ Request
    /\ conn[c].state = "open"
    /\ conn[c].pc = "idle"

\* a step that continues a request
Continue ==
    /\ ~crashed
    /\ UNCHANGED srvOps

\* the error response that the step has sent to c, "" if none
Sent(s, c) ==
    LET q == s.conn[c].send IN
    IF Len(q) > Len(conn[c].send) /\ SubSeq(q[Len(q)].type, 1, 6) = "ERROR:"
    THEN q[Len(q)].type ELSE ""

\* handleWebSocket: a connection that presents a session id is accepted
AcceptConnection(c, sessionID) ==
    /\ Request
    /\ conn[c].state = "new"
    /\ hub.pc = "idle"
    /\ Step(Connect(Srv, c, sessionID), Event("connect", c, 0, ""))

\* the connection is closed: readPump leaves its loop and hands c to the hub
CloseConnection(c) ==
    /\ Receives(c)
    /\ Step(WithConn(Srv, c, [Srv.conn[c] EXCEPT !.state = "closing"]),
            Event("close", c, 0, ""))

HubUnregister(c) ==
    /\ Continue
    /\ hub.pc = "idle"
    /\ conn[c].state = "closing"
    /\ \E s \in Unregister(Srv, c) : Step(s, Event("unregister", c, 0, ""))

HubAfterRemove ==
    /\ Continue
    /\ hub.pc = "removed"
    /\ Step(AfterRemove(Srv), Event("afterRemove", hub.c, 0, ""))

CreateRoomRequest(c) ==
    /\ Receives(c)
    /\ Len(heap) < MaxRooms
    /\ \E s \in CreateGen(Srv, c) : Step(s, Event("createGen", c, 0, Sent(s, c)))

CreateRoomInsert(c) ==
    /\ Continue
    /\ conn[c].pc = "create"
    /\ Step(CreateInsert(Srv, c), Event("create", c, 0, ""))

JoinRoomRequest(c, code) ==
    /\ Receives(c)
    /\ Step(JoinCheck(Srv, c, code),
            [Event("joinCheck", c, 0, JoinRoomErr(Srv, code)) EXCEPT !.code = code])

JoinRoomAdd(c) ==
    /\ Continue
    /\ conn[c].pc = "join"
    /\ Step(JoinAdd(Srv, c), Event("join", c, 0, ""))

LeaveRoomRequest(c) ==
    /\ Receives(c)
    /\ \E s \in LeaveRemove(Srv, c) :
          Step(s, Event(IF s.conn[c].pc = "leave" THEN "leaveRemove" ELSE "leave",
                        c, 0, Sent(s, c)))

LeaveRoomFinish(c) ==
    /\ Continue
    /\ conn[c].pc = "leave"
    /\ Step(LeaveFinish(Srv, c), Event("leave", c, 0, ""))

KickPlayerRequest(c, target) ==
    /\ Receives(c)
    /\ \E s \in KickPlayer(Srv, c, target) :
          Step(s, Event("kick", c, 0, KickErr(Srv, c, target)))

UpdateSettingsRequest(c) ==
    /\ Receives(c)
    /\ Step(UpdateSettings(Srv, c, MaxPlayers),
            Event("settings", c, 0, UpdateSettingsErr(Srv, c)))

StartGameRequest(c) ==
    /\ Receives(c)
    /\ Step(HandleStartGame(Srv, c), Event("start", c, 0, StartGameErr(Srv, c)))

PlayCardRequest(c) ==
    /\ Receives(c)
    /\ \E s \in ClientPlayCard(Srv, c) : Step(s, Event("play", c, 0, Sent(s, c)))

SlapRequest(c) ==
    /\ Receives(c)
    /\ \E s \in ClientSlap(Srv, c) : Step(s, Event("slap", c, 0, Sent(s, c)))

EndGameRequest(c) ==
    /\ Receives(c)
    /\ Step(ClientEndGame(Srv, c), Event("endGame", c, 0, HostErr(Srv, c)))

UnknownRequest(c) ==
    /\ Receives(c)
    /\ Step(ClientUnknown(Srv, c), Event("unknown", c, 0, "UNKNOWN_MESSAGE"))

CountdownBeginStep(k) ==
    /\ Continue
    /\ countdowns[k].pc = "begin"
    /\ Step(CountdownBegin(Srv, k), Event("countdownBegin", NoConn, k, ""))

CountdownTickStep(k) ==
    /\ Continue
    /\ countdowns[k].pc = "tick"
    /\ Step(CountdownTick(Srv, k), Event("countdownTick", NoConn, k, ""))

CountdownStartStep(k) ==
    /\ Continue
    /\ countdowns[k].pc = "start"
    /\ \E s \in CountdownStart(Srv, k) : Step(s, Event("countdownStart", NoConn, k, ""))

CleanupRound ==
    /\ Continue
    /\ Cleanup(Srv) # Srv
    /\ Step(Cleanup(Srv), Event("cleanup", NoConn, 0, ""))

\* positions that the requests of two clients lead to: both connected; the
\* first has created a room and set maxPlayers; the second has joined it
TwoConnected == Connect(Connect(NewHub, "c1", "s1"), "c2", "s2")
RoomMade ==
    LET s == CHOOSE x \in CreateGen(TwoConnected, "c1") : x.conn["c1"].code = "AAAA"
    IN UpdateSettings(CreateInsert(s, "c1"), "c1", MaxPlayers)
Seated == JoinAdd(JoinCheck(RoomMade, "c2", "AAAA"), "c2")
RoomPositions == {TwoConnected, RoomMade, Seated}

InitRoom ==
    /\ \E s \in RoomPositions : ServerAt(s)
    /\ NewGame(NewDeck, DefaultSettings)
    /\ arg = <<>>
    /\ ret = ""

NextRoom ==
    \/ \E c \in Conns : \E sessionID \in SessionIDs : AcceptConnection(c, sessionID)
    \/ \E c \in Conns : CloseConnection(c)
    \/ \E c \in Conns : HubUnregister(c)
    \/ HubAfterRemove
    \/ \E c \in Conns : CreateRoomRequest(c)
    \/ \E c \in Conns : CreateRoomInsert(c)
    \/ \E c \in Conns : \E code \in RoomCodes : JoinRoomRequest(c, code)
    \/ \E c \in Conns : JoinRoomAdd(c)
    \/ \E c \in Conns : LeaveRoomRequest(c)
    \/ \E c \in Conns : LeaveRoomFinish(c)
    \/ \E c \in Conns : \E target \in 1..(nextID - 1) : KickPlayerRequest(c, target)
    \/ \E c \in Conns : UpdateSettingsRequest(c)
    \/ \E c \in Conns : StartGameRequest(c)
    \/ \E c \in Conns : PlayCardRequest(c)
    \/ \E c \in Conns : SlapRequest(c)
    \/ \E c \in Conns : EndGameRequest(c)
    \/ \E c \in Conns : UnknownRequest(c)
    \/ \E k \in DOMAIN countdowns : CountdownBeginStep(k)
    \/ \E k \in DOMAIN countdowns : CountdownTickStep(k)
    \/ \E k \in DOMAIN countdowns : CountdownStartStep(k)
    \/ CleanupRound

SpecRoom == InitRoom /\ [][NextRoom]_vars

-----------------------------------------------------------------------------
(* The hub's broadcasts to clients whose writePump is behind: Client.send    *)
(* holds what has not been written to the socket yet                         *)

\* the state of the server, with what is queued on every Client.send
Queued == [Srv EXCEPT !.conn = conn]

\* number of messages a client's writePump is behind at the start
BacklogChoices == {0, SendBufferSize - 1, SendBufferSize}
Backlog(n) == [i \in 1 .. n |-> Msg("ROOM_UPDATED", 0, NoRoomState)]

\* a client of the hub: registered or unregistered, in a room or in none
ClientChoices(sessionID) ==
    {[NewConn EXCEPT !.state = "open", !.SessionID = sessionID,
                     !.RoomCode = code, !.send = Backlog(n)] :
        code \in {""} \cup RoomCodes, n \in BacklogChoices}
    \cup {[NewConn EXCEPT !.state = "closed", !.SessionID = sessionID, !.RoomCode = code] :
            code \in {""} \cup RoomCodes}

HubPositions ==
    {[NewHub EXCEPT
        !.conn = [c \in Conns |-> IF c = "c1" THEN a ELSE IF c = "c2" THEN b ELSE NewConn],
        !.clients = {c \in {"c1", "c2"} : (IF c = "c1" THEN a ELSE b).state = "open"},
        !.hubSessions = [sid \in SessionIDs |->
            IF b.state = "open" /\ b.SessionID = sid THEN "c2"
            ELSE IF a.state = "open" /\ a.SessionID = sid THEN "c1"
            ELSE NoConn]] :
        a \in ClientChoices("s1"), b \in ClientChoices("s1") \cup ClientChoices("s2")}

\* one more message is sent, while the budget of messages is not spent
Sends ==
    /\ srvOps < MaxSends
    /\ srvOps' = srvOps + 1

\* the k-th message that is broadcast
Broadcast(k) == Msg("ROOM_UPDATED", k, NoRoomState)

BroadcastToRoomStep(code) ==
    /\ Sends
    /\ Step(BroadcastToRoom(Queued, code, Broadcast(srvOps + 1)),
            [Event("broadcast", NoConn, srvOps + 1, "") EXCEPT !.code = code])

BroadcastToRoomExceptStep(code, sessionID) ==
    /\ Sends
    /\ Step(BroadcastToRoomExcept(Queued, code, sessionID, Broadcast(srvOps + 1)),
            [Event("broadcastExcept", NoConn, srvOps + 1, "")
                EXCEPT !.code = code, !.except = sessionID])

\* writePump of c takes the message at the head of Client.send and, with it,
\* all that is queued behind it
WritePumpStep(c) ==
    /\ Sends
    /\ c \in clients
    /\ conn[c].send # <<>>
    /\ Step(WithConn(Queued, c, [conn[c] EXCEPT !.send = <<>>]),
            Event("writePump", c, 0, ""))

InitBroadcast ==
    /\ \E s \in HubPositions : ServerAt(s)
    /\ NewGame(NewDeck, DefaultSettings)
    /\ arg = <<>>
    /\ ret = ""

NextBroadcast ==
    \/ \E code \in RoomCodes : BroadcastToRoomStep(code)
    \/ \E code \in RoomCodes : \E sessionID \in SessionIDs :
          BroadcastToRoomExceptStep(code, sessionID)
    \/ \E c \in Conns : WritePumpStep(c)

SpecBroadcast == InitBroadcast /\ [][NextBroadcast]_vars

----------------------------------------------------------------------------
(* Properties *)

\* values after the step
HandNext(p) == Read(mem', PlayerHands'[p])
PileCardsNext == Read(mem', Pile')

\* steps of the handlers, recognised in a pair of states
PlayApplied == steps' = steps + 1 /\ lastOp'.op = "play" /\ lastOp'.ok
PlayRefused == steps' = steps + 1 /\ lastOp'.op = "play" /\ ~lastOp'.ok
SlapEvaluated(p) == pc[p] = "slapLocked" /\ pc'[p] = "slapChecks"
SlapRejected(p) == pc[p] = "slapWait" /\ pc'[p] = "slapChecks"
SlapPassed(p) == pc[p] = "slapWait" /\ pc'[p] = "slapLocked"

Eligible(p) == PlayerHands[p].len > 0 \/ (EnableSlapIn /\ SlapInCounts[p] < MaxSlapIns)

RECURSIVE SumLen(_)
SumLen(S) ==
    IF S = {} THEN 0
    ELSE LET p == CHOOSE x \in S : TRUE IN PlayerHands[p].len + SumLen(S \ {p})

Occurrences(c, s) == Cardinality({i \in 1..Len(s) : s[i] = c})

RECURSIVE HandOccurrences(_, _)
HandOccurrences(c, S) ==
    IF S = {} THEN 0
    ELSE LET p == CHOOSE x \in S : TRUE IN
         Occurrences(c, Hand(p)) + HandOccurrences(c, S \ {p})

\* C1: in every state reached by plays, slaps (won, burned, rejected for cooldown,
\* slap-ins) and auto-plays, the hand sizes and the pile size add up to the size of
\* the deck (52 in the program, DeckSize cards under the bounds of the model)
C1_CardConservation == SumLen(Players) + Pile.len = DeckSize

\* C1 witness: a pile has been won, cards have been burned and the timer has auto-played
C1_Witness ==
    /\ \E p \in Players : Stats.SuccessfulSlaps[p] > 0
    /\ \E p \in Players : Stats.CardsBurned[p] > 0
    /\ lastOp.op = "auto" /\ lastOp.ok

\* C2: in every state every card of the deck occurs exactly once in the hands and the
\* pile taken together
C2_DeckIsPartitioned ==
    \A c \in DeckCards : HandOccurrences(c, Players) + Occurrences(c, PileCards) = 1

\* C3 (as stated): a slap made on a valid pile that another player's slap wins first
\* is evaluated against the emptied pile and fails
C3_LoserSeesEmptiedPile ==
    [][\A p \in Players :
          SlapEvaluated(p) /\ raced[p] \in {"lost", "stale"}
              => Pile.len = 0 /\ ~slapRes'[p].ok]_vars

\* C3 (amended): slap evaluations exclude each other; of the slaps made on the same
\* valid pile by eligible players outside their cooldown, the first one evaluated
\* succeeds and receives the whole pile, and a later one, when no card has reached
\* the pile between the two evaluations, faces the emptied pile and fails
C3_RaceSerialized ==
    [][\A p \in Players :
          /\ Cardinality({q \in Players : pc'[q] = "slapLocked"}) <= 1
          /\ SlapEvaluated(p) /\ raced[p] = "same" /\ Eligible(p)
                => /\ slapRes'[p].ok
                   /\ slapRes'[p].won = Pile.len
                   /\ HandNext(p) = Hand(p) \o PileCards
                   /\ Pile'.len = 0
          /\ SlapEvaluated(p) /\ raced[p] = "lost"
                => Pile.len = 0 /\ ~slapRes'[p].ok]_vars

\* C3 witness: a slap that lost the race has been evaluated and has failed, while the
\* winner holds the pile it was made on
C3_Witness ==
    \E p \in Players : \E q \in Players \ {p} :
        /\ raced[p] = "beaten" /\ pc[p] = "slapChecks" /\ ~slapRes[p].ok
        /\ Stats.SuccessfulSlaps[q] > 0

\* C4: every play that succeeds is made by the player whose turn it is, moves exactly
\* one card (the front card of that hand, to the top of the pile; nothing else moves)
\* and advances the turn in the same step
C4_PlayMovesOneCard ==
    [][PlayApplied =>
          LET p == lastOp'.player IN
          /\ TurnOrder[CurrentTurnIdx + 1] = p
          /\ HandNext(p) = Tail(Hand(p))
          /\ PileCardsNext = Append(PileCards, Head(Hand(p)))
          /\ \A q \in Players \ {p} : HandNext(q) = Hand(q)
          /\ CurrentTurnIdx' = advanceLoop(PlayerHands', CurrentTurnIdx, CurrentTurnIdx)]_vars

\* C5: a play by a player whose turn it is not fails with "not your turn" and leaves
\* the hands, the pile, the turn index and the slap window as they were
C5_OutOfTurnPlay ==
    [][steps' = steps + 1 /\ lastOp'.op = "play"
         /\ TurnOrder[CurrentTurnIdx + 1] # lastOp'.player
          => /\ ~lastOp'.ok
             /\ lastOp'.reason = "not your turn"
             /\ \A q \in Players : HandNext(q) = Hand(q)
             /\ PileCardsNext = PileCards
             /\ UNCHANGED <<PlayerHands, Pile, CurrentTurnIdx, SlapWindowOpen>>]_vars

\* C5 witness: an out-of-turn play has been refused while cards lay on the pile
C5_Witness ==
    /\ lastOp.op = "play" /\ ~lastOp.ok /\ lastOp.reason = "not your turn"
    /\ Pile.len > 0

\* C6 (as stated): a slap of a player made less than SlapCooldownMs after that
\* player's previous slap was processed (whatever its outcome) is rejected, reason
\* "cooldown"
C6_CooldownAfterAnyAttempt ==
    [][\A p \in Players :
          /\ pc[p] = "slapWait" /\ pc'[p] # "slapWait"
          /\ lastAttemptTime[p] # NoTime
          /\ now - lastAttemptTime[p] < SlapCooldownMs
          => /\ SlapRejected(p)
             /\ ~slapRes'[p].ok
             /\ slapRes'[p].reason = "cooldown"]_vars

\* C6 (amended): a slap of a player made less than SlapCooldownMs after that player's
\* last slap that was not itself rejected for cooldown is rejected, reason "cooldown",
\* whether or not the pile offers a valid slap
C6_CooldownAfterPassedAttempt ==
    [][\A p \in Players :
          /\ pc[p] = "slapWait" /\ pc'[p] # "slapWait"
          /\ lastPassedTime[p] # NoTime
          /\ now - lastPassedTime[p] < SlapCooldownMs
          => /\ SlapRejected(p)
             /\ ~slapRes'[p].ok
             /\ slapRes'[p].reason = "cooldown"]_vars

\* C6 witness: a slap has been rejected for cooldown on a pile that offers a valid slap
C6_Witness ==
    \E p \in Players :
        /\ pc[p] = "slapChecks" /\ slapRes[p].reason = "cooldown"
        /\ IsValidSlap(PileCards, Rules)
        /\ now > lastPassedTime[p]

\* C7: a slap rejected for cooldown changes nothing but Stats.TotalSlaps: hands, pile,
\* turn index, slap window, slap-in counters, successful-slap and cards-burned
\* statistics stay as they were
C7_CooldownRejectionFrame ==
    [][\A p \in Players :
          SlapRejected(p) =>
             /\ slapRes'[p].reason = "cooldown"
             /\ UNCHANGED <<mem, PlayerHands, Pile, CurrentTurnIdx, SlapWindowOpen,
                            SlapInCounts>>
             /\ Stats'.SuccessfulSlaps = Stats.SuccessfulSlaps
             /\ Stats'.CardsBurned = Stats.CardsBurned
             /\ Stats'.TotalSlaps = Stats.TotalSlaps + 1]_vars

\* C7 witness: a slap has been rejected for cooldown while the slap window was open
\* and the player had been burned before
C7_Witness ==
    \E p \in Players :
        /\ pc[p] = "slapChecks" /\ slapRes[p].reason = "cooldown"
        /\ SlapWindowOpen
        /\ Stats.CardsBurned[p] > 0

\* C8: CheckSlap returns "jack" when the top card is a Jack, whatever the settings;
\* else "doubles" when doubles is enabled and the top two cards have the same rank;
\* else "sandwich" when sandwich is enabled and the top card and the third from the
\* top have the same rank; else "invalid".  A disabled variant is never returned and
\* the empty pile is "invalid"
C8_CheckSlapOrder ==
    ret # "" =>
        LET pile == arg.pile
            n == Len(pile)
            jack == n >= 1 /\ pile[n].Rank = "J"
            doubles == arg.rules.EnableDoubles /\ n >= 2 /\ pile[n].Rank = pile[n - 1].Rank
            sandwich == arg.rules.EnableSandwich /\ n >= 3 /\ pile[n].Rank = pile[n - 2].Rank
        IN /\ jack => ret = "jack"
           /\ ~jack /\ doubles => ret = "doubles"
           /\ ~jack /\ ~doubles /\ sandwich => ret = "sandwich"
           /\ ~jack /\ ~doubles /\ ~sandwich => ret = "invalid"
           /\ ret = "doubles" => arg.rules.EnableDoubles
           /\ ret = "sandwich" => arg.rules.EnableSandwich
           /\ n = 0 => ret = "invalid"

\* C8 witness: CheckSlap has answered "jack" for a pile whose top two cards are both
\* Jacks, with doubles enabled
C8_Witness ==
    /\ ret = "jack"
    /\ Len(arg.pile) >= 2
    /\ arg.pile[Len(arg.pile) - 1].Rank = "J"
    /\ arg.rules.EnableDoubles

\* C9: a player with h >= 1 cards whose slap is evaluated on a pile that offers no
\* valid slap loses exactly the first min(BurnPenalty, h) cards of the hand; these
\* become the bottom of the pile in the same order, under the cards that were there;
\* the result is a failure reporting that count, and CardsBurned grows by it
C9_BurnMovesFrontCards ==
    [][\A p \in Players :
          SlapEvaluated(p) /\ PlayerHands[p].len >= 1 /\ ~IsValidSlap(PileCards, Rules)
          => LET h == PlayerHands[p].len
                 burnCount == Min(BurnPenalty, h)
             IN /\ HandNext(p) = SubSeq(Hand(p), burnCount + 1, h)
                /\ PileCardsNext = SubSeq(Hand(p), 1, burnCount) \o PileCards
                /\ ~slapRes'[p].ok
                /\ slapRes'[p].burn = burnCount
                /\ Stats'.CardsBurned[p] = Stats.CardsBurned[p] + burnCount]_vars

\* C10: a slap by an eligible player evaluated on a pile that offers a valid slap
\* appends the whole pile to the back of that player's hand, empties the pile, closes
\* the slap window, makes that player's seat the current turn and leaves the other
\* hands as they were
C10_ValidSlapWinsPile ==
    [][\A p \in Players :
          SlapEvaluated(p) /\ Eligible(p) /\ IsValidSlap(PileCards, Rules)
          => /\ slapRes'[p].ok
             /\ HandNext(p) = Hand(p) \o PileCards
             /\ Pile'.len = 0
             /\ ~SlapWindowOpen'
             /\ TurnOrder[CurrentTurnIdx' + 1] = p
             /\ \A q \in Players \ {p} : HandNext(q) = Hand(q)]_vars

\* C10 witness: a player other than the first in turn order has won a pile of at least
\* two cards and is next to play
C10_Witness ==
    \E p \in Players \ {TurnOrder[1]} :
        /\ pc[p] = "slapChecks" /\ slapRes[p].ok /\ slapRes[p].won >= 2
        /\ TurnOrder[CurrentTurnIdx + 1] = p
        /\ Pile.len = 0

\* the game after the step
GNext == [mem |-> mem', hands |-> PlayerHands', pile |-> Pile', idx |-> CurrentTurnIdx',
          window |-> SlapWindowOpen', slapIn |-> SlapInCounts', stats |-> Stats']

AutoPlayApplied == steps' = steps + 1 /\ lastOp'.op = "auto" /\ lastOp'.ok
SlapHandlerDone(p) == pc[p] = "slapChecks" /\ pc'[p] = "idle"

\* the timeout task / the warning task of timer t fires in the step
FiredTimeout(t) ==
    /\ steps' = steps + 1 /\ lastOp'.op = "auto"
    /\ t \in timers /\ t.timeout /\ ~t.warn
    /\ ~\E u \in timers' : u.gen = t.gen /\ u.timeout
FiredWarning(t) ==
    /\ steps' = steps
    /\ t \in timers /\ t.warn
    /\ ~\E u \in timers' : u.gen = t.gen /\ u.warn

\* C11: a player without cards wins a pile only when slap-in is enabled and the
\* player's slap-in counter is below MaxSlapIns; the counter grows by one on exactly
\* these wins and changes on no other step; it never exceeds MaxSlapIns
C11_SlapInCounter ==
    [][\A p \in Players :
          LET slapInWin == SlapEvaluated(p) /\ PlayerHands[p].len = 0 /\ slapRes'[p].ok IN
          /\ slapInWin => EnableSlapIn /\ SlapInCounts[p] < MaxSlapIns
          /\ SlapInCounts'[p] = SlapInCounts[p] + (IF slapInWin THEN 1 ELSE 0)
          /\ SlapInCounts'[p] <= MaxSlapIns]_vars

\* C11 witness: a player who has used every slap-in has been refused on a pile that
\* offers a valid slap
C11_Witness ==
    \E p \in Players :
        /\ pc[p] = "slapChecks" /\ slapRes[p].reason = "eliminated"
        /\ EnableSlapIn /\ SlapInCounts[p] = MaxSlapIns
        /\ IsValidSlap(PileCards, Rules)

\* C12: the slap of a player without cards who may not slap in (slap-in disabled, or
\* the counter at MaxSlapIns), on a pile that offers a valid slap, fails with reason
\* "eliminated" and moves no card: hands, pile and turn index stay as they were
C12_IneligibleSlap ==
    [][\A p \in Players :
          SlapEvaluated(p) /\ PlayerHands[p].len = 0 /\ ~Eligible(p)
             /\ IsValidSlap(PileCards, Rules)
          => /\ ~slapRes'[p].ok
             /\ slapRes'[p].reason = "eliminated"
             /\ \A q \in Players : HandNext(q) = Hand(q)
             /\ PileCardsNext = PileCards
             /\ UNCHANGED <<PlayerHands, Pile, CurrentTurnIdx>>]_vars

\* C12 witness: with slap-in disabled, a player without cards has been refused on a
\* pile that offers a valid slap
C12_Witness ==
    \E p \in Players :
        /\ pc[p] = "slapChecks" /\ slapRes[p].reason = "eliminated"
        /\ ~EnableSlapIn /\ PlayerHands[p].len = 0
        /\ IsValidSlap(PileCards, Rules)

\* C13: the slap of a player without cards who may slap in, on a pile that offers no
\* valid slap, fails with burn penalty 0 and leaves hands, pile, turn index, slap-in
\* counters and cards-burned statistics as they were
C13_EligibleSlapOnInvalidPile ==
    [][\A p \in Players :
          SlapEvaluated(p) /\ PlayerHands[p].len = 0 /\ Eligible(p)
             /\ ~IsValidSlap(PileCards, Rules)
          => /\ ~slapRes'[p].ok
             /\ slapRes'[p].burn = 0
             /\ \A q \in Players : HandNext(q) = Hand(q)
             /\ PileCardsNext = PileCards
             /\ UNCHANGED <<PlayerHands, Pile, CurrentTurnIdx, SlapInCounts>>
             /\ Stats'.CardsBurned = Stats.CardsBurned]_vars

\* C13 witness: a player without cards who may slap in has slapped a non-empty pile
\* that offers no valid slap
C13_Witness ==
    \E p \in Players :
        /\ pc[p] = "slapChecks" /\ slapRes[p].reason = SlapReasonInvalid
        /\ PlayerHands[p].len = 0 /\ EnableSlapIn /\ SlapInCounts[p] < MaxSlapIns
        /\ Pile.len > 0 /\ ~IsValidSlap(PileCards, Rules)

\* C14: after a play (manual or by the timer) from seat s the turn index is the first
\* seat after s, in circular order and ending with s itself, whose hand is not empty;
\* it is s when no seat holds a card; it is always an index of the turn order
C14_AdvanceTurn ==
    [][PlayApplied \/ AutoPlayApplied =>
          LET s == CurrentTurnIdx
              n == Len(TurnOrder)
              offs == {k \in 1..n : PlayerHands'[TurnOrder[((s + k) % n) + 1]].len > 0}
              first == CHOOSE k \in offs : \A j \in offs : k <= j
          IN /\ CurrentTurnIdx' = IF offs = {} THEN s ELSE (s + first) % n
             /\ CurrentTurnIdx' \in 0..(n - 1)]_vars

\* C14 witness: after a manual play the turn has stayed with the player, the only one
\* who holds cards
C14_Witness ==
    /\ lastOp.op = "play" /\ lastOp.ok
    /\ steps > 0 /\ pc = [p \in Players |-> "idle"]
    /\ TurnOrder[CurrentTurnIdx + 1] = lastOp.player
    /\ \A q \in Players \ {lastOp.player} : PlayerHands[q].len = 0
    /\ PlayerHands[lastOp.player].len > 0

\* C15: at any time at most one timeout task and at most one warning task are pending
C15_OneTimerPair ==
    /\ Cardinality({t \in timers : t.timeout}) <= 1
    /\ Cardinality({t \in timers : t.warn}) <= 1

\* C16: when the last operation was a manual play, neither task of the timer that was
\* started before that play fires any more
C16_SupersededTimerSilent ==
    [][lastOp.op = "play" /\ lastOp.ok =>
          \A t \in timers :
              t.gen = nextGen - 2 => ~FiredTimeout(t) /\ ~FiredWarning(t)]_vars

C18_VictoryDeclared ==
    [][(PlayApplied \/ AutoPlayApplied \/ \E p \in Players : SlapHandlerDone(p))
          /\ Cardinality({q \in Players : PlayerHands'[q].len > 0}) = 1
          /\ ~IsValidSlap(PileCardsNext, Rules)
          => roomStatus' = "finished"]_vars

\* C19: the players that handleSlap reports eliminated have an empty hand, and none
\* is reported while the pile offers a valid slap
C19_EliminatedOnlyOnInvalidPile ==
    [][\A p \in Players :
          SlapHandlerDone(p) =>
             \A q \in CheckEliminations(G, Rules) :
                 PlayerHands[q].len = 0 /\ ~IsValidSlap(PileCards, Rules)]_vars

\* C19 witness: a slap has been handled to its end in a state in which a player
\* without cards is reported eliminated
C19_Witness ==
    \E p \in Players :
        /\ pc[p] = "idle" /\ lastOp.op = "slapCall" /\ lastOp.player = p
        /\ slapRes[p] = NoRes /\ steps > 0
        /\ CheckEliminations(G, Rules) # {}
        /\ Stats.TotalSlaps > 0

\* C20: once the room status is "finished", no step changes a hand, the pile or the
\* turn index
C20_FinishedIsTerminal ==
    [][roomStatus = "finished" =>
          /\ \A q \in Players : HandNext(q) = Hand(q)
          /\ PileCardsNext = PileCards
          /\ CurrentTurnIdx' = CurrentTurnIdx]_vars

----------------------------------------------------------------------------
(* Properties of the room server *)

\* the Room objects in Manager.rooms
LiveRooms == {rooms[code] : code \in RoomCodes} \ {NoRoom}
Roster(r) == DOMAIN heap[r].Players
RosterNext(r) == DOMAIN heap'[r].Players
HostsOf(r) == {p \in Roster(r) : heap[r].Players[p].IsHost}
\* the registered connections whose Client.RoomCode is the code
Seats(code) == {c \in clients : conn[c].RoomCode = code}
\* the types of the messages that the last step has put on Client.send of c
SentTypes(c) == [i \in DOMAIN conn[c].send |-> conn[c].send[i].type]
SentTypesNext(c) == [i \in DOMAIN conn'[c].send |-> conn'[c].send[i].type]

\* C21: in every room of the room map whose roster is not empty, exactly one
\* player of the roster has the host flag, and Room.HostID names that player
C21_OneHost ==
    \A r \in LiveRooms : Roster(r) # {} => HostsOf(r) = {heap[r].HostID}

\* C22: when the hub unregisters the connection of a room's host while the
\* room is starting or playing, the room leaves the room map, its host and
\* roster stay as they were (no handoff), and every other registered connection
\* of the room is sent ROOM_CLOSED
C22_HostDisconnectDisbands ==
    [][\A c \in Conns : \A code \in RoomCodes :
          (/\ lastSrv'.op = "unregister" /\ lastSrv'.c = c
           /\ conn[c].RoomCode = code
           /\ rooms[code] # NoRoom
           /\ heap[rooms[code]].HostID = conn[c].PlayerID
           /\ heap[rooms[code]].Status \in {"starting", "playing"})
          => /\ rooms'[code] = NoRoom
             /\ heap'[rooms[code]] = heap[rooms[code]]
             /\ \A d \in clients' :
                   conn'[d].RoomCode = code => SentTypesNext(d) = <<"ROOM_CLOSED">>]_vars

\* C23: a CreateRoom that succeeds puts into the room map a new room in waiting
\* status whose only player is the creator (host, connected, position 0), and
\* every room that was in the room map is still there under its code
C23_CreateRoomFresh ==
    [][\A c \in Conns :
          (lastSrv'.op = "create" /\ lastSrv'.c = c)
          => LET r == rooms'[conn'[c].RoomCode]
                 creator == conn'[c].PlayerID
             IN /\ r \in DOMAIN heap' \ DOMAIN heap
                /\ heap'[r].Status = "waiting"
                /\ heap'[r].HostID = creator
                /\ DOMAIN heap'[r].Players = {creator}
                /\ heap'[r].Players[creator] =
                      [IsHost |-> TRUE, IsConnected |-> TRUE, Position |-> 0]
                /\ \A code \in RoomCodes : rooms[code] # NoRoom => rooms'[code] = rooms[code]]_vars

\* what the claim says of the outcome of JoinRoom for a room code
JoinOutcome(code) ==
    IF rooms[code] = NoRoom THEN "room not found"
    ELSE IF heap[rooms[code]].Status # "waiting" THEN "game already in progress"
    ELSE IF Cardinality(Roster(rooms[code])) >= heap[rooms[code]].MaxPlayers
    THEN "room is full"
    ELSE ""

\* C24: JoinRoom fails with room-not-found, game-in-progress or room-full, the
\* first that applies in that order; a JoinRoom that fails leaves every roster
\* as it was; a JoinRoom that succeeds adds one player to the roster, not host,
\* connected, at the position that is the size of the roster before
C24_JoinRoom ==
    [][\A c \in Conns :
          /\ (lastSrv'.op = "joinCheck" /\ lastSrv'.c = c)
             => /\ lastSrv'.err = JoinOutcome(lastSrv'.code)
                /\ heap' = heap
                /\ IF JoinOutcome(lastSrv'.code) # ""
                   THEN /\ conn'[c].pc = "idle"
                        /\ SentTypesNext(c) =
                              <<"ERROR:JOIN_FAILED:" \o JoinOutcome(lastSrv'.code)>>
                   ELSE /\ conn'[c].pc = "join"
                        /\ conn'[c].room = rooms[lastSrv'.code]
          /\ (lastSrv'.op = "join" /\ lastSrv'.c = c)
             => LET r == conn[c].room
                    new == conn'[c].PlayerID
                IN /\ new \notin Roster(r)
                   /\ RosterNext(r) = Roster(r) \cup {new}
                   /\ heap'[r].Players[new] =
                         [IsHost |-> FALSE, IsConnected |-> TRUE,
                          Position |-> Cardinality(Roster(r))]
                   /\ \A p \in Roster(r) : heap'[r].Players[p] = heap[r].Players[p]
                   /\ \A q \in DOMAIN heap \ {r} : heap'[q] = heap[q]]_vars

\* C24 witness: a JoinRoom has just failed with room-full on a room whose second
\* player came in by a JoinRoom
C24_Witness ==
    /\ lastSrv.op = "joinCheck"
    /\ lastSrv.err = "room is full"
    /\ \E p \in Roster(rooms[lastSrv.code]) :
          heap[rooms[lastSrv.code]].Players[p] =
              [IsHost |-> FALSE, IsConnected |-> TRUE, Position |-> 1]

\* C25: in every room the positions of the players are pairwise distinct and
\* are exactly 0 .. n-1 for a roster of n players
C25_PositionsDense ==
    \A r \in DOMAIN heap :
        /\ \A p, q \in Roster(r) :
              heap[r].Players[p].Position = heap[r].Players[q].Position => p = q
        /\ {heap[r].Players[p].Position : p \in Roster(r)}
              = 0 .. (Cardinality(Roster(r)) - 1)

\* C25 witness: the player at position 0 has just been removed from a room by
\* a leave, a kick or a disconnect, and a player who joined after it remains
C25_Witness ==
    /\ lastSrv.op \in {"leaveRemove", "kick", "unregister"}
    /\ \E r \in LiveRooms : \E p \in Roster(r) :
          /\ \E q \in 1 .. (nextID - 1) : q < p /\ q \notin Roster(r)
          /\ heap[r].Players[p].Position = 0

\* the connected players of room r in the next state
ConnectedNext(r) == {p \in RosterNext(r) : heap'[r].Players[p].IsConnected}

\* C26: when the handling of a departure (a leave-room, or the disconnect of a
\* player who is not the host) completes and the room it removed the player
\* from has no connected player, that room is no longer in the room map
C26_DepartureRemovesEmptyRoom ==
    [][/\ \A c \in Conns :
             (lastSrv'.op = "leave" /\ lastSrv'.c = c /\ conn[c].pc = "leave")
             => (ConnectedNext(conn[c].room) = {}
                    => \A code \in RoomCodes : rooms'[code] # conn[c].room)
       /\ (lastSrv'.op = "afterRemove")
             => (ConnectedNext(hub.room) = {}
                    => \A code \in RoomCodes : rooms'[code] # hub.room)]_vars

\* C26 witness: a leave-room has just completed for the last player of a room,
\* and the room, its roster empty, is out of the room map
C26_Witness ==
    /\ lastSrv.op = "leave"
    /\ \E r \in DOMAIN heap : Roster(r) = {} /\ r \notin LiveRooms

\* C27: when a connection is accepted with the session token of a closed
\* connection whose player was seated in a room that is still in the room map,
\* the new connection is bound to that room and player, the player is in the
\* roster and connected, no player is created, and 'reconnected' is sent
C27_Reconnect ==
    [][\A c, d \in Conns : \A code \in RoomCodes :
          (/\ lastSrv'.op = "connect" /\ lastSrv'.c = c
           /\ conn[d].state = "closed" /\ d \notin clients
           /\ conn[d].SessionID = conn'[c].SessionID
           /\ conn[d].RoomCode = code /\ rooms[code] # NoRoom
           /\ sessions[conn[d].SessionID] =
                 [PlayerID |-> conn[d].PlayerID, RoomCode |-> code])
          => /\ conn'[c].RoomCode = code
             /\ conn'[c].PlayerID = conn[d].PlayerID
             /\ nextID' = nextID
             /\ conn[d].PlayerID \in RosterNext(rooms[code])
             /\ heap'[rooms[code]].Players[conn[d].PlayerID].IsConnected
             /\ \E i \in 1 .. Len(conn'[c].send) :
                   /\ conn'[c].send[i].type = "RECONNECTED"
                   /\ conn'[c].send[i].room = ToProtocol(heap'[rooms[code]])]_vars

\* C28: when a leave-room has been handled for a connection whose player was
\* in a room, GetSession for its session token gives no binding
C28_LeaveDeletesSession ==
    [][\A c \in Conns :
          (/\ lastSrv'.op = "leave" /\ lastSrv'.c = c
           /\ conn[c].RoomCode # "")
          => GetSession([sessions |-> sessions'], conn[c].SessionID) = NoSession]_vars

\* the steps of StartGameCountdown, in the order of the claim
CountdownOrder ==
    <<"starting", "tick3", "tick2", "tick1", "game", "playing",
      "GAME_STARTED", "CARDS_DEALT", "TURN_CHANGED", "timer">>

\* C29: StartGameCountdown sets the status to starting, broadcasts the ticks
\* 3, 2, 1 in that order, creates the Game over exactly the players that are
\* connected at that moment, sets the status to playing, broadcasts
\* game-started, cards-dealt and turn-changed in that order, and starts the
\* first turn timer
C29_CountdownOrder ==
    [][\A k \in DOMAIN countdowns :
          LET t == countdowns[k]
              u == countdowns'[k]
          IN /\ (Len(u.log) <= Len(CountdownOrder)
                 /\ u.log = SubSeq(CountdownOrder, 1, Len(u.log)))
             /\ (lastSrv'.op = "countdownBegin" /\ lastSrv'.k = k /\ u.pc # "done")
                => /\ heap'[u.room].Status = "starting"
                   /\ u.pc = "tick" /\ u.i = 3
             /\ (lastSrv'.op = "countdownTick" /\ lastSrv'.k = k)
                => /\ u.log = Append(t.log, "tick" \o ToString(t.i))
                   /\ \A d \in Seats(t.code) :
                         conn'[d].send = <<Msg("GAME_STARTING", t.i, NoRoomState)>>
             /\ (lastSrv'.op = "countdownStart" /\ lastSrv'.k = k /\ ~crashed')
                => /\ t.log = SubSeq(CountdownOrder, 1, 4)
                   /\ heap'[t.room].Game.active
                   /\ {heap'[t.room].Game.TurnOrder[j] :
                          j \in DOMAIN heap'[t.room].Game.TurnOrder}
                         = GetConnectedPlayers(heap[t.room])
                   /\ Len(heap'[t.room].Game.TurnOrder)
                         = Cardinality(GetConnectedPlayers(heap[t.room]))
                   /\ heap'[t.room].Status = "playing"
                   /\ \A d \in Seats(t.code) :
                         /\ SentTypesNext(d) = <<"GAME_STARTED", "CARDS_DEALT", "TURN_CHANGED">>
                         /\ conn'[d].send[1].room.Status = "playing"
                   /\ heap'[t.room].Game.timer]_vars

\* C29 witness: a countdown has run to its end for a room that is in the room
\* map, and the connections of the room's players have the three messages
C29_Witness ==
    /\ lastSrv.op = "countdownStart"
    /\ ~crashed
    /\ \E k \in DOMAIN countdowns :
          /\ countdowns[k].log = CountdownOrder
          /\ rooms[countdowns[k].code] = countdowns[k].room
          /\ Cardinality(Seats(countdowns[k].code)) >= 2
          /\ \A d \in Seats(countdowns[k].code) :
                SentTypes(d) = <<"GAME_STARTED", "CARDS_DEALT", "TURN_CHANGED">>

\* C30: a countdown whose room has left the room map makes no further step
\* for that room code: it broadcasts no tick, no game-started, cards-dealt or
\* turn-changed, creates no Game and starts no turn timer
C30_DeletedRoomStopsCountdown ==
    [][\A k \in DOMAIN countdowns :
          (/\ lastSrv'.op \in {"countdownTick", "countdownStart"}
           /\ lastSrv'.k = k
           /\ rooms[countdowns[k].code] # countdowns[k].room)
          => /\ \A d \in Conns : conn'[d].send = <<>>
             /\ heap'[countdowns[k].room] = heap[countdowns[k].room]
             /\ ~crashed']_vars

\* C31: the unregister of a registered connection takes it out of Hub.clients
\* and out of Hub.sessions and closes its send channel, which was open; when
\* the connection has the code of a room of the room map, the room's disconnect
\* handling runs before the hub takes the next register or unregister; a
\* connection that is unregistered is sent nothing
C31_Unregister ==
    [][/\ \A c \in Conns :
             (lastSrv'.op = "unregister" /\ lastSrv'.c = c)
             => /\ c \in clients /\ c \notin clients'
                /\ hubSessions'[conn[c].SessionID] # c
                /\ conn[c].state # "closed" /\ conn'[c].state = "closed"
                /\ (conn[c].RoomCode # "" /\ rooms[conn[c].RoomCode] # NoRoom)
                   => LET r == rooms[conn[c].RoomCode] IN
                      IF heap[r].HostID = conn[c].PlayerID
                      THEN rooms'[conn[c].RoomCode] = NoRoom /\ hub'.pc = "idle"
                      ELSE /\ conn[c].PlayerID \notin RosterNext(r)
                           /\ hub' = [pc |-> "removed", c |-> c, room |-> r]
       /\ (lastSrv'.op \in {"connect", "unregister"} /\ lastSrv' # lastSrv)
             => hub.pc = "idle"
       /\ hub.pc = "removed"
             => (lastSrv'.op = "afterRemove" \/ hub' = hub)
       /\ \A d \in Conns :
             conn[d].state = "closed"
             => conn'[d].state = "closed" /\ conn'[d].send = <<>> /\ d \notin clients']_vars

\* C31 witness: the hub has finished the disconnect handling of a seated
\* connection, and its broadcast went to a registered connection of the room
\* and not to the connection that was unregistered
C31_Witness ==
    /\ lastSrv.op = "afterRemove"
    /\ conn[lastSrv.c].state = "closed"
    /\ conn[lastSrv.c].RoomCode # ""
    /\ conn[lastSrv.c].send = <<>>
    /\ \E d \in clients :
          /\ conn[d].RoomCode = conn[lastSrv.c].RoomCode
          /\ SentTypes(d) = <<"PLAYER_LEFT">>

\* C32: BroadcastToRoom puts the message at the tail of Client.send of every
\* registered connection whose RoomCode is the target and whose channel has
\* room, leaves every other channel as it was (full channel, other room code,
\* unregistered connection), and can always be taken, whatever the channels
\* hold; BroadcastToRoomExcept does the same but for the excluded session id
C32_Broadcast ==
    [][/\ \A code \in RoomCodes :
             /\ srvOps < MaxSends => ENABLED BroadcastToRoomStep(code)
             /\ (lastSrv'.op \in {"broadcast", "broadcastExcept"}
                 /\ lastSrv'.code = code /\ lastSrv'.k = srvOps + 1)
                => \A d \in Conns :
                      conn'[d].send =
                          IF /\ d \in clients
                             /\ conn[d].RoomCode = code
                             /\ Len(conn[d].send) < SendBufferSize
                             /\ (lastSrv'.op = "broadcastExcept"
                                    => conn[d].SessionID # lastSrv'.except)
                          THEN Append(conn[d].send, Broadcast(lastSrv'.k))
                          ELSE conn[d].send]_vars

\* C32 witness: a broadcast has just reached a connection that had a message
\* queued, behind that message, and was dropped for a connection of the same
\* room whose channel was full
C32_Witness ==
    /\ lastSrv.op = "broadcast"
    /\ \E c, d \in clients :
          /\ conn[c].RoomCode = lastSrv.code /\ conn[d].RoomCode = lastSrv.code
          /\ Len(conn[c].send) = SendBufferSize
          /\ conn[c].send[SendBufferSize] # Broadcast(lastSrv.k)
          /\ Len(conn[d].send) >= 2
          /\ conn[d].send[Len(conn[d].send)] = Broadcast(lastSrv.k)
          /\ conn[d].send[1] # Broadcast(lastSrv.k)

\* the requests of clients that a handler of handleMessage answers in one step
HandlerOps == {"leave", "kick", "settings", "start", "play", "slap", "endGame", "unknown"}
ErrorsNext(d) == {i \in DOMAIN conn'[d].send : SubSeq(conn'[d].send[i].type, 1, 6) = "ERROR:"}

\* C33: a message of a client that a handler answers produces at most one
\* error response, on the connection it came from and on no other, and the
\* process is up after it
C33_ErrorsContained ==
    [][\A c \in Conns :
          (lastSrv'.op \in HandlerOps /\ lastSrv'.c = c /\ srvOps' = srvOps + 1)
          => /\ ~crashed'
             /\ Cardinality(ErrorsNext(c)) <= 1
             /\ \A d \in Conns \ {c} : ErrorsNext(d) = {}]_vars

\* C34: a start-game request for a room that is not in waiting status starts
\* no countdown
C34_StartOnlyFromWaiting ==
    [][\A c \in Conns :
          (/\ lastSrv'.op = "start" /\ lastSrv'.c = c /\ srvOps' = srvOps + 1
           /\ conn[c].RoomCode # "" /\ rooms[conn[c].RoomCode] # NoRoom
           /\ heap[rooms[conn[c].RoomCode]].Status # "waiting")
          => countdowns' = countdowns]_vars

\* C35: in every room the size of the roster is at most Settings.MaxPlayers
C35_RosterWithinMax ==
    \A r \in DOMAIN heap : Cardinality(Roster(r)) <= heap[r].MaxPlayers

\* C36: while the game is in progress and at least two players hold cards, the
\* player whose turn it is holds a card and a turn timer is pending whose timeout
\* task will play for that player, so the turn can advance
C36_TurnCanAdvance ==
    (/\ arg.status = "playing"
     /\ Cardinality(SeatsWithCards(arg.g)) >= 2)
    => /\ arg.g.hands[Table[arg.g.idx + 1]].len > 0
       /\ \E t \in arg.timers : t.timeout

\* C37: every registered connection is the one the hub's session index stores
\* under its session id, and every entry of the index is a registered connection
C37_SessionIndex ==
    /\ \A c \in clients :
          conn[c].SessionID # "" => hubSessions[conn[c].SessionID] = c
    /\ \A sid \in SessionIDs :
          hubSessions[sid] # NoConn => hubSessions[sid] \in clients

\* C38: when its handler is not running, the room-code of a registered connection
\* names a live room whose roster contains the connection's player id
C38_BoundToLiveRoom ==
    \A c \in clients :
        (conn[c].pc = "idle" /\ conn[c].RoomCode # "")
            => /\ rooms[conn[c].RoomCode] # NoRoom
               /\ conn[c].PlayerID \in Roster(rooms[conn[c].RoomCode])

\* C39: while a room has a game and no handler is running, every player of the
\* game's turn order, the one whose turn it is included, is in the room's roster
C39_TurnOrderInRoster ==
    \A k \in RoomCodes :
        (/\ rooms[k] # NoRoom
         /\ heap[rooms[k]].Game # NoGame
         /\ \A c \in Conns : conn[c].pc = "idle")
            => GamePlayers(heap[rooms[k]]) \subseteq Roster(rooms[k])

\* C40: whenever some goroutine is inside a function of the game, one of these
\* goroutines can take its next step: the locks of the game never deadlock
C40_NoDeadlock ==
    (\E t \in Goroutines : Running(t)) => (\E t \in Goroutines : CanStep(t))

====
